---- MODULE Spec2Model ----
(***************************************************************************)
(* A model of the two phases of the ECB publication pipeline:              *)
(*   - ECBScraper       (src/ecb_scrapper.py):   the collection phase,     *)
(*   - ECBPDFDownloader (src/pdf_downloader.py): the retrieval phase.      *)
(*                                                                         *)
(* A Python string is modelled as a sequence of symbols.  A symbol is one  *)
(* character ("_", "A", "1", ...) or an atomic run of characters that      *)
(* holds none of the characters the code looks for (a date such as         *)
(* "2024-01-01", a host such as "https://example.org").                    *)
(*                                                                         *)
(* The two phases are separate programs: SpecDownloader runs the           *)
(* retrieval phase and SpecScraper the collection phase.  SpecScraperLive  *)
(* is the collection phase on a feed that never stops loading, SpecRun is  *)
(* ECBScraper.run from the final snapshot on, followed by the read of the  *)
(* file it saved, SpecRetry one call of a retry-wrapped operation,         *)
(* SpecMetadata one call of generate_metadata and SpecReadFile one call of *)
(* read_publications_file.                                                 *)
(***************************************************************************)
EXTENDS Integers, Sequences, FiniteSets, TLC

\* ------------------------------------------------------------------------
\* Bounds of the model
\* ------------------------------------------------------------------------

\* Longest input list of publications (lines of the publications file).
MaxRecords == 2

\* The target count the scraper is constructed with (max_publications).
MaxPublications == 4

\* Most pagination steps that load new content in one run.
MaxScrolls == 6

\* The content extents the feed can show are 1..MaxHeight.
MaxHeight == 2

\* Most dl elements in a snapshot of the page.
MaxDlElements == 2

\* ------------------------------------------------------------------------
\* Strings
\* ------------------------------------------------------------------------

Digits == <<"0", "1", "2", "3", "4", "5", "6", "7", "8", "9">>

DigitSet == {Digits[i] : i \in 1..10}

\* str(n) of a natural number: its decimal digits.
RECURSIVE ToDigits(_)
ToDigits(n) ==
    IF n < 10 THEN <<Digits[n + 1]>>
    ELSE ToDigits(n \div 10) \o <<Digits[(n % 10) + 1]>>

UpperLetters ==
    <<"A", "B", "C", "D", "E", "F", "G", "H", "I", "J", "K", "L", "M",
      "N", "O", "P", "Q", "R", "S", "T", "U", "V", "W", "X", "Y", "Z">>

LowerLetters ==
    <<"a", "b", "c", "d", "e", "f", "g", "h", "i", "j", "k", "l", "m",
      "n", "o", "p", "q", "r", "s", "t", "u", "v", "w", "x", "y", "z">>

\* str.lower() on one symbol: a capital letter becomes the small one.
LowerSym(c) ==
    IF \E i \in 1..Len(UpperLetters) : UpperLetters[i] = c
    THEN LowerLetters[CHOOSE i \in 1..Len(UpperLetters) : UpperLetters[i] = c]
    ELSE c

Lower(s) == [i \in 1..Len(s) |-> LowerSym(s[i])]

\* sub in s
Contains(s, sub) ==
    \E i \in 1..(Len(s) - Len(sub) + 1) : SubSeq(s, i, i + Len(sub) - 1) = sub

\* s.endswith(suffix)
EndsWith(s, suffix) ==
    /\ Len(s) >= Len(suffix)
    /\ SubSeq(s, Len(s) - Len(suffix) + 1, Len(s)) = suffix

\* s.strip('_')
RECURSIVE LStrip(_)
LStrip(s) == IF s # <<>> /\ Head(s) = "_" THEN LStrip(Tail(s)) ELSE s

RECURSIVE RStrip(_)
RStrip(s) ==
    IF s # <<>> /\ s[Len(s)] = "_" THEN RStrip(SubSeq(s, 1, Len(s) - 1)) ELSE s

Strip(s) == RStrip(LStrip(s))

\* ------------------------------------------------------------------------
\* Naming and collision resolution (pdf_downloader.py)
\* ------------------------------------------------------------------------

\* The character class of sanitize_filename: ; : ' " { } ^ % ~ # | < > \ [ ]
\* whitespace and /.
special_chars ==
    {";", ":", "'", "\"", "{", "}", "^", "%", "~", "#", "|", "<", ">", "\\",
     "[", "]", " ", "\t", "\n", "/"}

max_length == 200

\* re.sub(r'_+', '_', s)
RECURSIVE CollapseUnderscores(_)
CollapseUnderscores(s) ==
    IF Len(s) < 2 THEN s
    ELSE IF s[1] = "_" /\ s[2] = "_" THEN CollapseUnderscores(Tail(s))
    ELSE <<s[1]>> \o CollapseUnderscores(Tail(s))

sanitize_filename(title) ==
    LET replaced == [i \in 1..Len(title) |->
                        IF title[i] \in special_chars THEN "_" ELSE title[i]]
        clean == Strip(CollapseUnderscores(replaced))
    IN  IF Len(clean) > max_length
        THEN RStrip(SubSeq(clean, 1, max_length))
        ELSE clean

generate_filename(date, title, counter) ==
    IF counter > 0
    THEN date \o <<"_">> \o sanitize_filename(title) \o <<"_", "A", "t">>
              \o ToDigits(counter)
    ELSE date \o <<"_">> \o sanitize_filename(title)

\* Position of the first "_" of s, 0 when there is none.
RECURSIVE FirstUnderscore(_, _)
FirstUnderscore(s, i) ==
    IF i > Len(s) THEN 0
    ELSE IF s[i] = "_" THEN i
    ELSE FirstUnderscore(s, i + 1)

\* Number of digits s ends with.
RECURSIVE TrailingDigits(_)
TrailingDigits(s) ==
    IF s # <<>> /\ s[Len(s)] \in DigitSet
    THEN 1 + TrailingDigits(SubSeq(s, 1, Len(s) - 1))
    ELSE 0

\* re.sub(r'_At\d+$', '', s)
StripAtSuffix(s) ==
    LET k == TrailingDigits(s)
        n == Len(s) - k
    IN  IF k >= 1 /\ n >= 3 /\ SubSeq(s, n - 2, n) = <<"_", "A", "t">>
        THEN SubSeq(s, 1, n - 3)
        ELSE s

\* The downloads directory: a set of files, each with its name, the record
\* that wrote it (0: the file was there before the run) and whether its body
\* is complete.
FileExists(d, name) == \E f \in d : f.name = name

WriteFile(d, name, owner, state) ==
    {f \in d : f.name # name} \cup {[name |-> name, owner |-> owner, state |-> state]}

\* The probed name when an _AtN the title ends with is left in place.
CandidateNameKeepingAtSuffix(base_filename, extension, counter) ==
    IF counter = 0 THEN base_filename \o <<".">> \o extension
    ELSE base_filename \o <<"_", "A", "t">> \o ToDigits(counter)
             \o <<".">> \o extension

\* The name check_duplicate_filename probes when the counter is `counter`.
CandidateName(base_filename, extension, counter) ==
    LET u == FirstUnderscore(base_filename, 1)
    IN  IF counter = 0 THEN base_filename \o <<".">> \o extension
        ELSE IF u > 0
        THEN SubSeq(base_filename, 1, u - 1) \o <<"_">>
                 \o StripAtSuffix(SubSeq(base_filename, u + 1, Len(base_filename)))
                 \o <<"_", "A", "t">> \o ToDigits(counter) \o <<".">> \o extension
        ELSE base_filename \o <<"_", "A", "t">> \o ToDigits(counter)
                 \o <<".">> \o extension

RECURSIVE ProbeFrom(_, _, _, _)
ProbeFrom(d, base_filename, extension, counter) ==
    IF FileExists(d, CandidateName(base_filename, extension, counter))
    THEN ProbeFrom(d, base_filename, extension, counter + 1)
    ELSE CandidateName(base_filename, extension, counter)

\* A resolver that probes the directory once only (an `if` for the `while`).
check_duplicate_filename_probing_once(d, base_filename, extension) ==
    IF FileExists(d, CandidateName(base_filename, extension, 0))
    THEN CandidateName(base_filename, extension, 1)
    ELSE CandidateName(base_filename, extension, 0)

check_duplicate_filename(d, base_filename, extension) ==
    ProbeFrom(d, base_filename, extension, 0)

PdfExt == <<"p", "d", "f">>
JsonExt == <<"j", "s", "o", "n">>

\* url.lower().endswith('.pdf')
IsPdfUrl(url) == EndsWith(Lower(url), <<".">> \o PdfExt)


\* ------------------------------------------------------------------------
\* Retry policies (the tenacity decorators)
\* ------------------------------------------------------------------------

\* isinstance(failure, classes): every failure is an Exception, and a
\* ClientPayloadError (a response body that breaks off) is a ClientError.
IsInstance(failure, classes) ==
    \/ failure \in classes
    \/ "Exception" \in classes
    \/ failure = "ClientPayloadError" /\ "ClientError" \in classes

init_browser_policy ==
    [attempts |-> 3, min |-> 2, max |-> 10, multiplier |-> 1,
     retry_on |-> {"Exception"}]

\* The primary transport's policy with stop_after_attempt(2).
aiohttp_policy_two_attempts ==
    [attempts |-> 2, min |-> 2, max |-> 8, multiplier |-> 1,
     retry_on |-> {"ClientError", "ServerTimeoutError", "OSError"}]

aiohttp_policy ==
    [attempts |-> 3, min |-> 2, max |-> 8, multiplier |-> 1,
     retry_on |-> {"ClientError", "ServerTimeoutError", "OSError"}]

requests_policy ==
    [attempts |-> 2, min |-> 2, max |-> 6, multiplier |-> 1,
     retry_on |-> {"Exception"}]

navigate_policy ==
    [attempts |-> 3, min |-> 2, max |-> 10, multiplier |-> 1,
     retry_on |-> {"Exception"}]

generate_pdf_policy ==
    [attempts |-> 3, min |-> 2, max |-> 10, multiplier |-> 1,
     retry_on |-> {"Exception"}]

\* A decorator that asks the stop condition only.
RetryAgainWhateverTheFailure(policy, n, failure) == n < policy.attempts

\* tenacity calls the operation again after a failure iff the stop condition
\* has not been met and the predicate accepts the failure.
RetryAgain(policy, n, failure) ==
    n < policy.attempts /\ IsInstance(failure, policy.retry_on)

RECURSIVE Pow(_, _)
Pow(b, e) == IF e = 0 THEN 1 ELSE b * Pow(b, e - 1)

Min(a, b) == IF a <= b THEN a ELSE b

Max(a, b) == IF a >= b THEN a ELSE b

\* A wait that is the policy's min every time.
wait_min_every_time(policy, attempt_number) == policy.min

\* wait_exponential(multiplier, min, max) after the attempt_number-th failed
\* attempt: multiplier * 2 ** (attempt_number - 1), kept between min and max.
wait_exponential(policy, attempt_number) ==
    Max(policy.min,
        Min(policy.multiplier * Pow(2, attempt_number - 1), policy.max))

\* ------------------------------------------------------------------------
\* Dates, extraction and ranking (ecb_scrapper.py)
\* ------------------------------------------------------------------------

\* s.startswith(prefix)
StartsWith(s, prefix) ==
    /\ Len(s) >= Len(prefix)
    /\ SubSeq(s, 1, Len(prefix)) = prefix

\* self.month_names; a month name is one symbol, a run of letters.
month_names ==
    [m \in {"January", "February", "March", "April", "May", "June", "July",
            "August", "September", "October", "November", "December"} |->
        CASE m = "January"   -> <<"0", "1">>
          [] m = "February"  -> <<"0", "2">>
          [] m = "March"     -> <<"0", "3">>
          [] m = "April"     -> <<"0", "4">>
          [] m = "May"       -> <<"0", "5">>
          [] m = "June"      -> <<"0", "6">>
          [] m = "July"      -> <<"0", "7">>
          [] m = "August"    -> <<"0", "8">>
          [] m = "September" -> <<"0", "9">>
          [] m = "October"   -> <<"1", "0">>
          [] m = "November"  -> <<"1", "1">>
          [] m = "December"  -> <<"1", "2">>]

\* The classes of the regular expressions: \d, \s and \w.  "Mar" and "of"
\* are runs of letters that are no month name.
IsDigit(c) == c \in DigitSet

IsSpace(c) == c = " "

IsWord(c) == c \in DigitSet \cup DOMAIN month_names \cup {"_", "Mar", "of"}

AllDigits(s, i, n) ==
    /\ i + n - 1 <= Len(s)
    /\ \A j \in i..(i + n - 1) : IsDigit(s[j])

\* The position after the run of whitespace (of word symbols) that starts at i.
RECURSIVE SpaceRunEnd(_, _)
SpaceRunEnd(s, i) ==
    IF i <= Len(s) /\ IsSpace(s[i]) THEN SpaceRunEnd(s, i + 1) ELSE i

RECURSIVE WordRunEnd(_, _)
WordRunEnd(s, i) ==
    IF i <= Len(s) /\ IsWord(s[i]) THEN WordRunEnd(s, i + 1) ELSE i

\* None, and any other value that is false in a condition.
NoDate == <<>>

\* date_text.strip()
RECURSIVE StripSpaces(_)
StripSpaces(s) ==
    IF s # <<>> /\ IsSpace(Head(s)) THEN StripSpaces(Tail(s))
    ELSE IF s # <<>> /\ IsSpace(s[Len(s)])
         THEN StripSpaces(SubSeq(s, 1, Len(s) - 1))
         ELSE s

\* (\d{1,2})\s+(\w+)\s+(\d{4}) matched with the day at i..i+n-1.  Whitespace
\* is no word symbol, so each of \s+ and \w+ takes its whole run.
DayMonthYearAt(s, i, n) ==
    LET a == i + n
        b == SpaceRunEnd(s, a)
        c == WordRunEnd(s, b)
        d == SpaceRunEnd(s, c)
    IN  /\ AllDigits(s, i, n)
        /\ b > a
        /\ c > b
        /\ d > c
        /\ AllDigits(s, d, 4)

DayMonthYearGroups(s, i, n) ==
    LET b == SpaceRunEnd(s, i + n)
        c == WordRunEnd(s, b)
        d == SpaceRunEnd(s, c)
    IN  [day |-> SubSeq(s, i, i + n - 1),
         month |-> SubSeq(s, b, c - 1),
         year |-> SubSeq(s, d, d + 3)]

\* (\d{4})-(\d{2})-(\d{2}) matched at i
IsoDateAt(s, i) ==
    /\ i + 9 <= Len(s)
    /\ AllDigits(s, i, 4)
    /\ s[i + 4] = "-"
    /\ AllDigits(s, i + 5, 2)
    /\ s[i + 7] = "-"
    /\ AllDigits(s, i + 8, 2)

\* day.zfill(2)
ZFill2(day) == IF Len(day) < 2 THEN <<"0">> \o day ELSE day

\* re.search returns the leftmost match, and \d{1,2} prefers two digits.
parse_date(date_text) ==
    LET s == StripSpaces(date_text)
        starts1 == {i \in 1..Len(s) : \E n \in {1, 2} : DayMonthYearAt(s, i, n)}
        i1 == CHOOSE i \in starts1 : \A j \in starts1 : i <= j
        n1 == IF DayMonthYearAt(s, i1, 2) THEN 2 ELSE 1
        g == DayMonthYearGroups(s, i1, n1)
        known == /\ starts1 # {}
                 /\ Len(g.month) = 1
                 /\ g.month[1] \in DOMAIN month_names
        starts2 == {i \in 1..Len(s) : IsoDateAt(s, i)}
        i2 == CHOOSE i \in starts2 : \A j \in starts2 : i <= j
    IN  IF s = <<>> THEN NoDate
        ELSE IF known
             THEN g.year \o <<"-">> \o month_names[g.month[1]] \o <<"-">>
                     \o ZFill2(g.day)
             ELSE IF starts2 # {} THEN SubSeq(s, i2, i2 + 9)
                  ELSE NoDate

\* The origin that extract_publications_from_html puts before a url that
\* starts with "/".
Origin == <<"https:", "/", "/", "www.ecb.europa.eu">>

\* title.replace('|', '-')
ReplacePipes(title) ==
    [i \in 1..Len(title) |-> IF title[i] = "|" THEN "-" ELSE title[i]]

\* The page's markup as extract_publications_from_html walks it: whether
\* div.dl-wrapper is there and its dl elements; a dl has the texts of its dt
\* elements and, for each of its dd elements, the a elements with an href:
\* their text, their href and whether a div.accordion encloses them.

\* The loop over the links with no test of the limit.
RECURSIVE ExtractLinksUnlimited(_, _, _)
ExtractLinksUnlimited(found, links, date_text) ==
    IF links = <<>> THEN found
    ELSE LET link == Head(links)
             url == IF StartsWith(link.href, <<"/">>)
                    THEN Origin \o link.href
                    ELSE link.href
             parsed_date == parse_date(date_text)
             next == IF link.accordion THEN found
                     ELSE IF link.text # <<>> /\ url # <<>>
                             /\ parsed_date # NoDate
                          THEN Append(found,
                                      [date |-> parsed_date,
                                       title |-> ReplacePipes(link.text),
                                       url |-> url,
                                       original_date_text |-> date_text])
                          ELSE found
         IN  ExtractLinksUnlimited(next, Tail(links), date_text)

\* The loop over the links of one dd, on the list built so far.
RECURSIVE ExtractLinks(_, _, _)
ExtractLinks(found, links, date_text) ==
    IF links = <<>> \/ Len(found) >= MaxPublications THEN found
    ELSE LET link == Head(links)
             title == link.text
             url == IF StartsWith(link.href, <<"/">>)
                    THEN Origin \o link.href
                    ELSE link.href
             parsed_date == parse_date(date_text)
             next == IF link.accordion THEN found
                     ELSE IF title # <<>> /\ url # <<>> /\ parsed_date # NoDate
                          THEN Append(found,
                                      [date |-> parsed_date,
                                       title |-> ReplacePipes(title),
                                       url |-> url,
                                       original_date_text |-> date_text])
                          ELSE found
         IN  ExtractLinks(next, Tail(links), date_text)

\* The loop over the dt elements of one dl, from the i-th on.
RECURSIVE ExtractPairs(_, _, _)
ExtractPairs(found, dl, i) ==
    IF i > Len(dl.dt_elements) \/ Len(found) >= MaxPublications THEN found
    ELSE ExtractPairs(IF i <= Len(dl.dd_elements)
                      THEN ExtractLinks(found, dl.dd_elements[i],
                                        dl.dt_elements[i])
                      ELSE found,
                      dl, i + 1)

\* The loop over the dl elements.
RECURSIVE ExtractDls(_, _)
ExtractDls(found, dl_elements) ==
    IF dl_elements = <<>> \/ Len(found) >= MaxPublications THEN found
    ELSE ExtractDls(ExtractPairs(found, Head(dl_elements), 1),
                    Tail(dl_elements))

extract_publications_from_html(html) ==
    IF ~html.dl_wrapper THEN <<>> ELSE ExtractDls(<<>>, html.dl_elements)

\* The loop of run that keeps every record.
RemoveNoDuplicates(unique_pubs, seen_urls, pubs) == unique_pubs \o pubs

\* run's loop over self.publications with seen_urls.
RECURSIVE RemoveDuplicates(_, _, _)
RemoveDuplicates(unique_pubs, seen_urls, pubs) ==
    IF pubs = <<>> THEN unique_pubs
    ELSE LET pub == Head(pubs)
         IN  IF pub.url \notin seen_urls
             THEN RemoveDuplicates(Append(unique_pubs, pub),
                                   seen_urls \cup {pub.url}, Tail(pubs))
             ELSE RemoveDuplicates(unique_pubs, seen_urls, Tail(pubs))

\* The code point of a symbol of a date.
Ord(c) ==
    IF c = "-" THEN 45
    ELSE 48 + (CHOOSE k \in 0..9 : Digits[k + 1] = c)

\* a < b on strings: the first position that differs decides, and a proper
\* prefix is smaller.
RECURSIVE StrLess(_, _)
StrLess(a, b) ==
    IF b = <<>> THEN FALSE
    ELSE IF a = <<>> THEN TRUE
    ELSE IF Head(a) # Head(b) THEN Ord(Head(a)) < Ord(Head(b))
    ELSE StrLess(Tail(a), Tail(b))

\* A sort that puts an element before the elements with an equal key: what
\* reversing an ascending stable sort would give.
RECURSIVE InsertByDateBeforeEqual(_, _)
InsertByDateBeforeEqual(sorted, pub) ==
    IF sorted = <<>> THEN <<pub>>
    ELSE IF ~StrLess(pub.date, Head(sorted).date)
         THEN <<pub>> \o sorted
         ELSE <<Head(sorted)>> \o InsertByDateBeforeEqual(Tail(sorted), pub)

\* list.sort(key=lambda x: x['date'], reverse=True): the sort is stable, and
\* with reverse=True elements with equal keys keep their order too.  Each
\* element goes behind every element already placed whose key is not smaller.
RECURSIVE InsertByDate(_, _)
InsertByDate(sorted, pub) ==
    IF sorted = <<>> THEN <<pub>>
    ELSE IF StrLess(Head(sorted).date, pub.date)
         THEN <<pub>> \o sorted
         ELSE <<Head(sorted)>> \o InsertByDate(Tail(sorted), pub)

RECURSIVE SortNewestFirst(_, _)
SortNewestFirst(sorted, pubs) ==
    IF pubs = <<>> THEN sorted
    ELSE SortNewestFirst(InsertByDate(sorted, Head(pubs)), Tail(pubs))

\* ------------------------------------------------------------------------
\* Metadata: the category (pdf_downloader.py)
\* ------------------------------------------------------------------------

\* The keywords of determine_category, one symbol per character.
monetary_policy ==
    <<"m", "o", "n", "e", "t", "a", "r", "y", " ", "p", "o", "l",
        "i", "c", "y">>

mopo_path ==
    <<"/", "m", "o", "p", "o", "/">>

economic_bulletin ==
    <<"e", "c", "o", "n", "o", "m", "i", "c", " ", "b", "u", "l",
        "l", "e", "t", "i", "n">>

financial_stability ==
    <<"f", "i", "n", "a", "n", "c", "i", "a", "l", " ", "s", "t",
        "a", "b", "i", "l", "i", "t", "y">>

speech ==
    <<"s", "p", "e", "e", "c", "h">>

key ==
    <<"k", "e", "y">>

interview ==
    <<"i", "n", "t", "e", "r", "v", "i", "e", "w">>

blog ==
    <<"b", "l", "o", "g">>

statistics ==
    <<"s", "t", "a", "t", "i", "s", "t", "i", "c", "s">>

stats_path ==
    <<"/", "s", "t", "a", "t", "s", "/">>

press ==
    <<"p", "r", "e", "s", "s">>

pr_path ==
    <<"/", "p", "r", "/">>

\* determine_category with the test of the press release before the test
\* of the speech.
determine_category_press_first(title, url) ==
    LET title_lower == Lower(title)
        url_lower == Lower(url)
    IN  IF \/ Contains(title_lower, monetary_policy)
           \/ Contains(url_lower, mopo_path)
        THEN "Monetary policy statement"
        ELSE IF Contains(title_lower, economic_bulletin)
        THEN "Economic Bulletin"
        ELSE IF Contains(title_lower, financial_stability)
        THEN "Financial Stability Review"
        ELSE IF Contains(url_lower, press) \/ Contains(url_lower, pr_path)
        THEN "Press release"
        ELSE IF Contains(url_lower, speech) \/ Contains(url_lower, key)
        THEN "Speech"
        ELSE IF Contains(url_lower, interview)
        THEN "Interview"
        ELSE IF Contains(url_lower, blog)
        THEN "Blog"
        ELSE IF \/ Contains(title_lower, statistics)
                \/ Contains(url_lower, stats_path)
        THEN "Statistical release"
        ELSE "Report"

determine_category(title, url) ==
    LET title_lower == Lower(title)
        url_lower == Lower(url)
    IN  IF \/ Contains(title_lower, monetary_policy)
           \/ Contains(url_lower, mopo_path)
        THEN "Monetary policy statement"
        ELSE IF Contains(title_lower, economic_bulletin)
        THEN "Economic Bulletin"
        ELSE IF Contains(title_lower, financial_stability)
        THEN "Financial Stability Review"
        ELSE IF Contains(url_lower, speech) \/ Contains(url_lower, key)
        THEN "Speech"
        ELSE IF Contains(url_lower, interview)
        THEN "Interview"
        ELSE IF Contains(url_lower, blog)
        THEN "Blog"
        ELSE IF \/ Contains(title_lower, statistics)
                \/ Contains(url_lower, stats_path)
        THEN "Statistical release"
        ELSE IF Contains(url_lower, press) \/ Contains(url_lower, pr_path)
        THEN "Press release"
        ELSE "Report"

\* ------------------------------------------------------------------------
\* The publications file: written by ECBScraper.save_to_file, read by
\* ECBPDFDownloader.read_publications_file
\* ------------------------------------------------------------------------

\* ' | ', the separator of the fields of a line.
FieldSeparator == <<" ", "|", " ">>

\* The characters str.strip() removes.
Whitespace == {" ", "\n", "\t", "\r"}

\* line.strip()
RECURSIVE StripWhitespace(_)
StripWhitespace(s) ==
    IF s # <<>> /\ Head(s) \in Whitespace THEN StripWhitespace(Tail(s))
    ELSE IF s # <<>> /\ s[Len(s)] \in Whitespace
         THEN StripWhitespace(SubSeq(s, 1, Len(s) - 1))
         ELSE s

\* s.find(sub) + 1: the leftmost place of sub in s, 0 when there is none.
FindFirst(s, sub) ==
    LET places == {i \in 1..(Len(s) - Len(sub) + 1) :
                       SubSeq(s, i, i + Len(sub) - 1) = sub}
    IN  IF places = {} THEN 0
        ELSE CHOOSE i \in places : \A j \in places : i <= j

\* s.split(sep, maxsplit); maxsplit = -1 puts no limit on the splits.
RECURSIVE Split(_, _, _)
Split(s, sep, maxsplit) ==
    LET i == FindFirst(s, sep)
    IN  IF maxsplit = 0 \/ i = 0 THEN <<s>>
        ELSE <<SubSeq(s, 1, i - 1)>>
                 \o Split(SubSeq(s, i + Len(sep), Len(s)), sep, maxsplit - 1)

\* '\n'.join(lines)
RECURSIVE JoinLines(_)
JoinLines(lines) ==
    IF lines = <<>> THEN <<>>
    ELSE IF Len(lines) = 1 THEN lines[1]
    ELSE lines[1] \o <<"\n">> \o JoinLines(Tail(lines))

\* f"{pub['date']} | {pub['title']} | {pub['url']}"
FormatLine(pub) ==
    pub.date \o FieldSeparator \o pub.title \o FieldSeparator \o pub.url

\* A file: whether it exists and its text.
NoFile == [exists |-> FALSE, text |-> <<>>]

\* save_to_file: nothing is written for an empty list; otherwise one line
\* for each publication, joined by '\n'.
save_to_file(file, pubs) ==
    IF pubs = <<>> THEN file
    ELSE [exists |-> TRUE,
          text |-> JoinLines([i \in 1..Len(pubs) |-> FormatLine(pubs[i])])]

\* The loop of read_publications_file over the lines of the file.
RECURSIVE ReadLines(_, _)
ReadLines(found, lines) ==
    IF lines = <<>> THEN found
    ELSE LET line == StripWhitespace(Head(lines))
             parts == Split(line, FieldSeparator, 2)
             next == IF line # <<>> /\ Contains(line, FieldSeparator)
                        /\ Len(parts) = 3
                     THEN Append(found, [date |-> parts[1], title |-> parts[2],
                                         url |-> parts[3]])
                     ELSE found
         IN  ReadLines(next, Tail(lines))

\* read_publications_file: open() raising (no such file) is caught and gives
\* the empty list; `for line in f` walks the text line by line.
read_publications_file(file) ==
    IF ~file.exists THEN <<>>
    ELSE ReadLines(<<>>, Split(file.text, <<"\n">>, -1))

\* ------------------------------------------------------------------------
\* The retrieval phase: ECBPDFDownloader
\* ------------------------------------------------------------------------

VARIABLES
    publications,   \* the lines of the publications file: (date, title, url)
    idx,            \* position of process_publications_file's loop (i)
    d_pc,           \* where the retrieval phase stands
    attempt,        \* attempt number of the retry-wrapped call under way
    disk,           \* the downloads directory
    pdf_filename,   \* process_publication's locals
    json_filename,
    success,
    creator_name,
    successful,     \* process_publications_file's counters
    failed,
    session,        \* self.session: "none", "open", "closed"
    browser,        \* self.browser: "none", "open", "closed"
    open_pages,     \* pages opened with browser.new_page() and not closed
    raising,        \* an exception is propagating out of run
    processed,      \* history: the records handed to process_publication
    primary_log     \* history: outcomes of the primary transport's attempts
                    \*          for the record under way

dvars == <<publications, idx, d_pc, attempt, disk, pdf_filename, json_filename,
           success, creator_name, successful, failed, session, browser,
           open_pages, raising, processed, primary_log>>

\* The state of the collection phase (ECBScraper.scrape_with_scroll).
VARIABLES
    s_pc,                    \* where scrape_with_scroll stands
    s_attempt,               \* attempt number of the retry-wrapped call under way
    s_browser,               \* the launched browser: "none", "open", "closed"
    playwright,              \* the async_playwright() context: "started", "stopped"
    dl_wrapper_found,        \* wait_for_dl_wrapper returned the container
    previous_height,         \* scrape_with_scroll's locals
    current_height,
    failed_scroll_attempts,
    successful_scrolls,
    publications_found,
    iteration,               \* history: the loop iteration under way
    checkpoint_due,          \* history: successful_scrolls came to a multiple
                             \*          of 5 and no checkpoint has started since
    checkpoints,             \* history: number of checkpoint extractions started
    run_pc,                  \* where ECBScraper.run stands
    html_content,            \* run's local: what scrape_with_scroll returned
    self_publications,       \* self.publications
    final_extractions        \* history: extractions made after the loop

\* The state of run around scrape_with_scroll.
run_locals == <<run_pc, html_content, self_publications, final_extractions>>

svars == <<s_pc, s_attempt, s_browser, playwright, dl_wrapper_found,
           previous_height, current_height, failed_scroll_attempts,
           successful_scrolls, publications_found, iteration, checkpoint_due,
           checkpoints, run_locals>>

\* One call of a retry-wrapped operation (the tenacity decorator).
VARIABLES
    t_site,        \* the operation called
    t_state,       \* "idle", "invoking", "failed", "logged", "returned", "raised"
    t_in_flight,   \* invocations of the operation that have not ended
    t_outcomes,    \* history: the outcome of each invocation, in order
    t_sleeps,      \* history: the delays slept, in seconds
    t_events,      \* history: number of before_sleep_log events
    t_raised       \* what the call raised, "" when nothing

tvars == <<t_site, t_state, t_in_flight, t_outcomes, t_sleeps, t_events,
           t_raised>>

\* One call of generate_metadata.
VARIABLES
    m_title,       \* the arguments
    m_url,
    m_category     \* metadata["category"], "" before the call

mvars == <<m_title, m_url, m_category>>

\* The publications file between the two phases.
VARIABLES
    f_file,        \* the file: whether it exists and its text
    f_pc,          \* "idle", "unread" (read_publications_file is called), "read"
    f_records      \* what read_publications_file returned

fvars == <<f_file, f_pc, f_records>>

vars == <<dvars, svars, tvars, mvars, fvars>>

\* What the steps of one program leave alone.
outside_downloader == <<svars, tvars, mvars, fvars>>

outside_scraper == <<dvars, tvars, mvars>>

outside_retry == <<dvars, svars, mvars, fvars>>

outside_metadata == <<dvars, svars, tvars, fvars>>

outside_file == <<dvars, svars, tvars, mvars>>

\* No publications file is written or read.
NoFileInit ==
    /\ f_file = NoFile
    /\ f_pc = "idle"
    /\ f_records = <<>>

\* No retry-wrapped call and no call of generate_metadata is under way.
NoCallInit ==
    /\ t_site = ""
    /\ t_state = "idle"
    /\ t_in_flight = 0
    /\ t_outcomes = <<>>
    /\ t_sleeps = <<>>
    /\ t_events = 0
    /\ t_raised = ""

NoMetadataInit ==
    /\ m_title = <<>>
    /\ m_url = <<>>
    /\ m_category = ""

Date1 == <<"2024-01-01">>

\* "T" and "T At1": the second sanitizes to T_At1, the name the collision
\* resolver gives a second "T".
Titles == {<<"T">>, <<"T", " ", "A", "t", "1">>}

\* A binary document and a page to render.
Urls == {<<"https://example.org/x", ".", "P", "D", "F">>,
         <<"https://example.org/p">>}

Records == [date : {Date1}, title : Titles, url : Urls]

PublicationLists == UNION {[1..n -> Records] : n \in 0..MaxRecords}

\* Files the downloads directory may hold before the run (it is kept from
\* run to run).
EarlierFiles ==
    {Date1 \o <<"_", "T", ".">> \o PdfExt,
     Date1 \o <<"_", "T", ".">> \o JsonExt,
     Date1 \o <<"_", "T", "_", "A", "t", "1", ".">> \o PdfExt}

InitialDirectories ==
    {{[name |-> n, owner |-> 0, state |-> "full"] : n \in names} :
        names \in SUBSET EarlierFiles}

NoName == <<>>

DInit ==
    /\ publications \in PublicationLists
    /\ idx = 0
    /\ d_pc = "init_session"
    /\ attempt = 1
    /\ disk \in InitialDirectories
    /\ pdf_filename = NoName
    /\ json_filename = NoName
    /\ success = FALSE
    /\ creator_name = ""
    /\ successful = 0
    /\ failed = 0
    /\ session = "none"
    /\ browser = "none"
    /\ open_pages = 0
    /\ raising = FALSE
    /\ processed = <<>>
    /\ primary_log = <<>>

\* close(): each resource is closed if it was acquired.
CloseResource(r) == IF r = "open" THEN "closed" ELSE r

\* run: init_session.  Building the client session either succeeds or
\* raises; an exception goes through run's finally.
InitSession ==
    /\ d_pc = "init_session"
    /\ \E ok \in BOOLEAN :
          IF ok
          THEN /\ session' = "open"
               /\ d_pc' = "init_browser"
               /\ raising' = FALSE
          ELSE /\ session' = session
               /\ d_pc' = "close"
               /\ raising' = TRUE
    /\ attempt' = 1
    /\ UNCHANGED outside_downloader
    /\ UNCHANGED <<publications, idx, disk, pdf_filename, json_filename, success,
                   creator_name, successful, failed, browser, open_pages,
                   processed, primary_log>>

\* init_browser whose failure after the retries is swallowed: run goes on to
\* the records without a browser.
InitBrowserFailureSwallowed ==
    /\ d_pc = "init_browser"
    /\ \E ok \in BOOLEAN :
          IF ok
          THEN /\ browser' = "open"
               /\ d_pc' = "read"
               /\ attempt' = 1
               /\ raising' = FALSE
          ELSE /\ browser' = browser
               /\ raising' = FALSE
               /\ IF RetryAgain(init_browser_policy, attempt, "Exception")
                  THEN /\ attempt' = attempt + 1
                       /\ d_pc' = d_pc
                  ELSE /\ attempt' = 1
                       /\ d_pc' = "read"
    /\ UNCHANGED outside_downloader
    /\ UNCHANGED <<publications, idx, disk, pdf_filename, json_filename, success,
                   creator_name, successful, failed, session, open_pages,
                   processed, primary_log>>

\* run: init_browser, one attempt of the retry-wrapped launch.
InitBrowser ==
    /\ d_pc = "init_browser"
    /\ \E ok \in BOOLEAN :
          IF ok
          THEN /\ browser' = "open"
               /\ d_pc' = "read"
               /\ attempt' = 1
               /\ raising' = FALSE
          ELSE /\ browser' = browser
               /\ IF RetryAgain(init_browser_policy, attempt, "Exception")
                  THEN /\ attempt' = attempt + 1
                       /\ d_pc' = d_pc
                       /\ raising' = FALSE
                  ELSE /\ attempt' = 1
                       /\ d_pc' = "close"
                       /\ raising' = TRUE
    /\ UNCHANGED outside_downloader
    /\ UNCHANGED <<publications, idx, disk, pdf_filename, json_filename, success,
                   creator_name, successful, failed, session, open_pages,
                   processed, primary_log>>

\* process_publications_file: the file is read; with no publication the
\* method returns.
ReadPublications ==
    /\ d_pc = "read"
    /\ IF Len(publications) = 0
       THEN /\ d_pc' = "close"
            /\ idx' = idx
       ELSE /\ d_pc' = "process"
            /\ idx' = 1
    /\ UNCHANGED outside_downloader
    /\ UNCHANGED <<publications, attempt, disk, pdf_filename, json_filename,
                   success, creator_name, successful, failed, session, browser,
                   open_pages, raising, processed, primary_log>>

\* process_publication, up to the choice of the path: the names are resolved
\* against the directory as it stands.
ResolveNames ==
    /\ d_pc = "process"
    /\ LET pub == publications[idx]
           base_filename == generate_filename(pub.date, pub.title, 0)
       IN  /\ pdf_filename' = check_duplicate_filename(disk, base_filename, PdfExt)
           /\ json_filename' = check_duplicate_filename(disk, base_filename, JsonExt)
           /\ d_pc' = IF IsPdfUrl(pub.url) THEN "primary" ELSE "new_page"
    /\ success' = FALSE
    /\ creator_name' = ""
    /\ attempt' = 1
    /\ processed' = Append(processed, idx)
    /\ primary_log' = <<>>
    /\ UNCHANGED outside_downloader
    /\ UNCHANGED <<publications, idx, disk, successful, failed, session, browser,
                   open_pages, raising>>

\* What one attempt of download_pdf_with_aiohttp can end with: the body
\* written; a transport error or a non-200 answer before the file is opened
\* (ClientError); the body breaking off after the file was opened
\* (ClientPayloadError); a failure outside the retried classes (RuntimeError,
\* ValueError, asyncio.TimeoutError before Python 3.11).
PrimaryOutcomes == {"ok", "ClientError", "ClientPayloadError", "NonTransportError"}

\* download_pdf: after the primary transport gave up, the except clause
\* turns to the fallback.
PrimaryGaveUp ==
    /\ d_pc' = "fallback"
    /\ attempt' = 1
    /\ success' = FALSE

\* download_pdf_with_aiohttp: one attempt.
PrimaryAttempt ==
    /\ d_pc = "primary"
    /\ \E outcome \in PrimaryOutcomes :
          /\ primary_log' = Append(primary_log, outcome)
          /\ disk' = CASE outcome = "ok" -> WriteFile(disk, pdf_filename, idx, "full")
                       [] outcome = "ClientPayloadError" ->
                              WriteFile(disk, pdf_filename, idx, "partial")
                       [] OTHER -> disk
          /\ IF outcome = "ok"
             THEN /\ success' = TRUE
                  /\ d_pc' = "metadata"
                  /\ attempt' = 1
             ELSE IF RetryAgain(aiohttp_policy, attempt, outcome)
             THEN /\ attempt' = attempt + 1
                  /\ UNCHANGED <<d_pc, success>>
             ELSE PrimaryGaveUp
    /\ UNCHANGED outside_downloader
    /\ UNCHANGED <<publications, idx, pdf_filename, json_filename, creator_name,
                   successful, failed, session, browser, open_pages, raising,
                   processed>>

\* download_pdf_with_requests: one attempt.  requests.get has the whole body
\* before the file is opened.
FallbackAttempt ==
    /\ d_pc = "fallback"
    /\ \E ok \in BOOLEAN :
          IF ok
          THEN /\ disk' = WriteFile(disk, pdf_filename, idx, "full")
               /\ success' = TRUE
               /\ d_pc' = "metadata"
               /\ attempt' = 1
          ELSE /\ disk' = disk
               /\ success' = FALSE
               /\ IF RetryAgain(requests_policy, attempt, "Exception")
                  THEN /\ attempt' = attempt + 1
                       /\ d_pc' = d_pc
                  ELSE /\ attempt' = 1
                       /\ d_pc' = "count"
    /\ UNCHANGED outside_downloader
    /\ UNCHANGED <<publications, idx, pdf_filename, json_filename, creator_name,
                   successful, failed, session, browser, open_pages, raising,
                   processed, primary_log>>

\* html_to_pdf: browser.new_page(); a failure is caught and reported.
NewPage ==
    /\ d_pc = "new_page"
    /\ \E ok \in BOOLEAN :
          IF ok
          THEN /\ open_pages' = open_pages + 1
               /\ d_pc' = "navigate"
          ELSE /\ open_pages' = open_pages
               /\ d_pc' = "count"
    /\ attempt' = 1
    /\ UNCHANGED outside_downloader
    /\ UNCHANGED <<publications, idx, disk, pdf_filename, json_filename, success,
                   creator_name, successful, failed, session, browser, raising,
                   processed, primary_log>>

Creators == {"", "Jane Doe"}

\* navigate_and_extract_creator: one attempt.  A missing author block gives
\* the empty creator.
NavigateAttempt ==
    /\ d_pc = "navigate"
    /\ \/ \E c \in Creators :
             /\ creator_name' = c
             /\ d_pc' = "render"
             /\ attempt' = 1
       \/ /\ creator_name' = creator_name
          /\ IF RetryAgain(navigate_policy, attempt, "Exception")
             THEN /\ attempt' = attempt + 1
                  /\ d_pc' = d_pc
             ELSE /\ attempt' = 1
                  /\ d_pc' = "count"
    /\ UNCHANGED outside_downloader
    /\ UNCHANGED <<publications, idx, disk, pdf_filename, json_filename, success,
                   successful, failed, session, browser, open_pages, raising,
                   processed, primary_log>>

\* generate_pdf_from_page: one attempt; after the document is written the
\* page is closed and html_to_pdf returns (True, creator_name).  A failure
\* after the retries returns (False, "").
RenderAttempt ==
    /\ d_pc = "render"
    /\ \E ok \in BOOLEAN :
          IF ok
          THEN /\ disk' = WriteFile(disk, pdf_filename, idx, "full")
               /\ open_pages' = open_pages - 1
               /\ success' = TRUE
               /\ creator_name' = creator_name
               /\ d_pc' = "metadata"
               /\ attempt' = 1
          ELSE /\ disk' = disk
               /\ open_pages' = open_pages
               /\ success' = FALSE
               /\ IF RetryAgain(generate_pdf_policy, attempt, "Exception")
                  THEN /\ attempt' = attempt + 1
                       /\ creator_name' = creator_name
                       /\ d_pc' = d_pc
                  ELSE /\ attempt' = 1
                       /\ creator_name' = ""
                       /\ d_pc' = "count"
    /\ UNCHANGED outside_downloader
    /\ UNCHANGED <<publications, idx, pdf_filename, json_filename, successful,
                   failed, session, browser, raising, processed, primary_log>>

\* A loop without the except clause: the exception leaves the loop.
RecordExceptionEndsBatch ==
    /\ failed' = failed
    /\ d_pc' = "close"
    /\ raising' = TRUE

\* An except clause that ends the iteration before the delay (continue): the
\* loop body is entered again without asyncio.sleep.
RecordExceptionSkipsDelay ==
    /\ failed' = failed + 1
    /\ d_pc' = "process"
    /\ raising' = FALSE

\* process_publications_file: the except clause around process_publication
\* counts the record as failed and goes on to the delay.
HandleRecordException ==
    /\ failed' = failed + 1
    /\ d_pc' = "sleep"
    /\ raising' = FALSE

\* What save_metadata can end with: the sidecar written; open() raising
\* (no file); json.dump raising after open() created the file.
MetadataOutcomes == {"ok", "open_error", "dump_error"}

\* process_publication after a successful retrieval: generate_metadata and
\* save_metadata.  An exception leaves process_publication.
SaveMetadata ==
    /\ d_pc = "metadata"
    /\ success
    /\ \E outcome \in MetadataOutcomes :
          /\ disk' = CASE outcome = "ok" -> WriteFile(disk, json_filename, idx, "full")
                       [] outcome = "dump_error" ->
                              WriteFile(disk, json_filename, idx, "partial")
                       [] OTHER -> disk
          /\ IF outcome = "ok"
             THEN /\ d_pc' = "count"
                  /\ UNCHANGED <<failed, raising>>
             ELSE HandleRecordException
    /\ UNCHANGED outside_downloader
    /\ UNCHANGED <<publications, idx, attempt, pdf_filename, json_filename, success,
                   creator_name, successful, session, browser, open_pages,
                   processed, primary_log>>

\* process_publications_file: the value process_publication returned is
\* counted.
CountResult ==
    /\ d_pc = "count"
    /\ IF success
       THEN /\ successful' = successful + 1
            /\ failed' = failed
       ELSE /\ successful' = successful
            /\ failed' = failed + 1
    /\ d_pc' = "sleep"
    /\ UNCHANGED outside_downloader
    /\ UNCHANGED <<publications, idx, attempt, disk, pdf_filename, json_filename,
                   success, creator_name, session, browser, open_pages, raising,
                   processed, primary_log>>

\* process_publications_file: asyncio.sleep(1), then the next record or the
\* summary.
SleepBetweenRecords ==
    /\ d_pc = "sleep"
    /\ IF idx < Len(publications)
       THEN /\ idx' = idx + 1
            /\ d_pc' = "process"
       ELSE /\ idx' = idx
            /\ d_pc' = "close"
    /\ UNCHANGED outside_downloader
    /\ UNCHANGED <<publications, attempt, disk, pdf_filename, json_filename,
                   success, creator_name, successful, failed, session, browser,
                   open_pages, raising, processed, primary_log>>

\* close() called after the try block instead of in a finally clause.
CloseOnNormalExitOnly ==
    /\ d_pc = "close"
    /\ session' = IF raising THEN session ELSE CloseResource(session)
    /\ browser' = IF raising THEN browser ELSE CloseResource(browser)
    /\ d_pc' = "finished"
    /\ UNCHANGED outside_downloader
    /\ UNCHANGED <<publications, idx, attempt, disk, pdf_filename, json_filename,
                   success, creator_name, successful, failed, open_pages, raising,
                   processed, primary_log>>

\* run's finally: close().
Close ==
    /\ d_pc = "close"
    /\ session' = CloseResource(session)
    /\ browser' = CloseResource(browser)
    /\ d_pc' = "finished"
    /\ UNCHANGED outside_downloader
    /\ UNCHANGED <<publications, idx, attempt, disk, pdf_filename, json_filename,
                   success, creator_name, successful, failed, open_pages, raising,
                   processed, primary_log>>

DNext ==
    \/ InitSession
    \/ InitBrowser
    \/ ReadPublications
    \/ ResolveNames
    \/ PrimaryAttempt
    \/ FallbackAttempt
    \/ NewPage
    \/ NavigateAttempt
    \/ RenderAttempt
    \/ SaveMetadata
    \/ CountResult
    \/ SleepBetweenRecords
    \/ Close



\* ------------------------------------------------------------------------
\* Properties of the retrieval phase
\* ------------------------------------------------------------------------

\* process_publication has returned or raised for the record at idx.
RecordHandled == d_pc \in {"count", "sleep"}

\* The names of the record under way have been resolved.
NamesResolved == d_pc \in {"primary", "fallback", "new_page", "navigate", "render",
                           "metadata", "count", "sleep"}

\* A file name without its extension.
StemOf(name) ==
    IF EndsWith(name, <<".">> \o PdfExt)
    THEN SubSeq(name, 1, Len(name) - 4)
    ELSE SubSeq(name, 1, Len(name) - 5)

\* The directory held, before the run, a document for every sidecar and a
\* sidecar for every document.
InitialDirectoryPaired ==
    \A f \in disk : f.owner = 0 =>
        \E g \in disk : g.owner = 0 /\ g.name # f.name /\ StemOf(g.name) = StemOf(f.name)

\* C1: once process_publication has returned or raised for a record, the
\* record's sidecar exists on disk if and only if its retrieval succeeded.
C1_SidecarIffRetrievalSucceeded ==
    RecordHandled => (success <=> FileExists(disk, json_filename))

\* C2: when run has finished after the browser was set up, every record of
\* the input was handed to process_publication exactly once and in input
\* order, and successful + failed is the number of records read; at any time
\* the records handled so far are 1, 2, ..., in that order.
C2_BatchNeverAborted ==
    /\ processed = [i \in 1..Len(processed) |-> i]
    /\ (d_pc = "finished" /\ browser # "none") =>
          /\ Len(processed) = Len(publications)
          /\ successful + failed = Len(publications)

\* A finished batch of two records in which the sidecar write of the first
\* record raised and the second record succeeded.
C2_Witness ==
    /\ d_pc = "finished"
    /\ Len(processed) = 2
    /\ successful = 1
    /\ failed = 1
    /\ \E f \in disk : f.owner = 1 /\ f.state = "partial" /\ EndsWith(f.name, JsonExt)
    /\ \E f \in disk : f.owner = 2 /\ f.state = "full" /\ EndsWith(f.name, JsonExt)

\* C3 as claimed: the fallback transport is invoked only after three failed
\* attempts of the primary transport.
C3_FallbackOnlyAfterThreeAttempts ==
    d_pc = "fallback" =>
        /\ Len(primary_log) = 3
        /\ \A i \in 1..Len(primary_log) : primary_log[i] # "ok"

\* C3, amended: the fallback transport is invoked only after the primary
\* transport's retry policy gave up, that is after three failed attempts or
\* after a failure outside the retried classes, every earlier failure being a
\* retried one; never after a primary attempt succeeded.
C3_FallbackOnlyAfterPrimaryGaveUp ==
    d_pc = "fallback" =>
        /\ primary_log # <<>>
        /\ \A i \in 1..Len(primary_log) : primary_log[i] # "ok"
        /\ \A i \in 1..(Len(primary_log) - 1) :
               primary_log[i] \in {"ClientError", "ClientPayloadError"}
        /\ \/ Len(primary_log) = 3
           \/ primary_log[Len(primary_log)] = "NonTransportError"

\* The fallback is invoked after a single primary attempt that failed
\* outside the retried classes.
C3_Witness == d_pc = "fallback" /\ primary_log = <<"NonTransportError">>

\* C4: the names check_duplicate_filename returns name no file of the
\* directory at the time of the call, and no step changes or removes a file
\* that an earlier record wrote or that was there before the run.
C4_ResolvedNamesUnused ==
    /\ [](d_pc \in {"primary", "new_page"} /\ attempt = 1 /\ primary_log = <<>>
            => /\ ~FileExists(disk, pdf_filename)
               /\ ~FileExists(disk, json_filename))
    /\ [][\A f \in disk : f.owner # idx' => f \in disk']_vars

\* A record whose title already ends in _At1 met a directory holding
\* ..._T_At1.pdf, was given ..._T_At2.pdf, and its artifact has been written.
C4_Witness ==
    /\ idx > 0
    /\ sanitize_filename(publications[idx].title) = <<"T", "_", "A", "t", "1">>
    /\ pdf_filename = Date1 \o <<"_", "T", "_", "A", "t", "2", ".">> \o PdfExt
    /\ \E f \in disk : f.name = pdf_filename /\ f.owner = idx /\ f.state = "full"
    /\ \E f \in disk : f.name = Date1 \o <<"_", "T", "_", "A", "t", "1", ".">> \o PdfExt

\* C5: starting from a directory in which documents and sidecars are paired,
\* the .pdf name and the .json name resolved for a record agree up to the
\* extension.
C5_PdfAndJsonNamesAgree ==
    (InitialDirectoryPaired /\ NamesResolved) =>
        StemOf(pdf_filename) = StemOf(json_filename)

\* C6: when run has finished, neither the HTTP session nor the browser is
\* still open.
C6_ResourcesReleased ==
    d_pc = "finished" => (session # "open" /\ browser # "open")

\* run finished by raising after the browser could not be launched in three
\* attempts; the session that had been opened is closed.
C6_Witness ==
    d_pc = "finished" /\ raising /\ session = "closed" /\ browser = "none"


\* ------------------------------------------------------------------------
\* The collection phase: ECBScraper.scrape_with_scroll
\* ------------------------------------------------------------------------

launch_browser_policy ==
    [attempts |-> 3, min |-> 2, max |-> 10, multiplier |-> 1,
     retry_on |-> {"Exception"}]

navigate_to_page_policy ==
    [attempts |-> 3, min |-> 2, max |-> 10, multiplier |-> 1,
     retry_on |-> {"Exception"}]

wait_for_dl_wrapper_policy ==
    [attempts |-> 3, min |-> 2, max |-> 10, multiplier |-> 1,
     retry_on |-> {"Exception"}]

get_page_height_policy ==
    [attempts |-> 3, min |-> 1, max |-> 5, multiplier |-> 1,
     retry_on |-> {"Exception"}]

scroll_to_bottom_policy ==
    [attempts |-> 3, min |-> 1, max |-> 5, multiplier |-> 1,
     retry_on |-> {"Exception"}]

get_page_content_policy ==
    [attempts |-> 3, min |-> 2, max |-> 8, multiplier |-> 1,
     retry_on |-> {"Exception"}]

max_failed_scrolls == 10

Heights == 1..MaxHeight

\* The headings (dt texts) of the model's snapshots: 5 March 2024 written in
\* the two forms parse_date reads, a later day, and a month with a year only.
HeadingLong == <<"5", " ", "March", " ", "2", "0", "2", "4">>

HeadingIso == <<"2", "0", "2", "4", "-", "0", "3", "-", "0", "5">>

HeadingApril == <<"1", "2", " ", "April", " ", "2", "0", "2", "4">>

HeadingNoDay == <<"March", " ", "2", "0", "2", "4">>

\* The links: two targets on the site, a second link to the first target
\* under another title, a relative target, a target without a scheme, a
\* link inside div.accordion, a link without text and a link with a text of
\* two lines.
LinkA == [text |-> <<"A">>, href |-> <<"/", "a">>, accordion |-> FALSE]

LinkB == [text |-> <<"B">>, href |-> <<"https:", "/", "/", "host", "/", "b">>,
          accordion |-> FALSE]

LinkAgain == [text |-> <<"A", "|", "2">>, href |-> <<"/", "a">>,
              accordion |-> FALSE]

LinkRelative == [text |-> <<"C">>, href |-> <<"c.html">>, accordion |-> FALSE]

LinkNoScheme == [text |-> <<"D">>, href |-> <<"/", "/", "cdn", "/", "d">>,
                 accordion |-> FALSE]

LinkInAccordion == [text |-> <<"X">>, href |-> <<"/", "x">>, accordion |-> TRUE]

LinkNoText == [text |-> <<>>, href |-> <<"/", "e">>, accordion |-> FALSE]

\* A link whose text runs over two lines of the markup: get_text(strip=True)
\* strips the ends of a text node and keeps the line break inside it.
LinkTwoLines == [text |-> <<"E", "\n", "F">>,
                 href |-> <<"https:", "/", "/", "host", "/", "e">>,
                 accordion |-> FALSE]

DlElements ==
    { [dt_elements |-> <<HeadingLong>>,
       dd_elements |-> << <<LinkA, LinkB>> >>],
      [dt_elements |-> <<HeadingApril, HeadingIso>>,
       dd_elements |-> << <<LinkAgain>>, <<LinkB, LinkRelative>> >>],
      [dt_elements |-> <<HeadingNoDay, HeadingIso>>,
       dd_elements |-> << <<LinkA>>,
                          <<LinkInAccordion, LinkNoText, LinkNoScheme>> >>],
      [dt_elements |-> <<HeadingApril, HeadingLong>>,
       dd_elements |-> << <<LinkRelative>> >>],
      [dt_elements |-> <<HeadingIso>>,
       dd_elements |-> << <<LinkA, LinkB, LinkAgain, LinkRelative>> >>],
      [dt_elements |-> <<>>,
       dd_elements |-> << <<LinkA>> >>],
      [dt_elements |-> <<HeadingIso>>,
       dd_elements |-> << <<LinkTwoLines, LinkB>> >>] }

\* The snapshots: with or without div.dl-wrapper, up to MaxDlElements dl
\* elements.
Markups ==
    [dl_wrapper : BOOLEAN,
     dl_elements : UNION {[1..n -> DlElements] : n \in 0..MaxDlElements}]

\* The snapshots the feed of the collection phase ends with: an empty page,
\* a page with a dl and no div.dl-wrapper around it, and two pages with one
\* dl in the container.
FinalSnapshots ==
    { [dl_wrapper |-> FALSE, dl_elements |-> <<>>],
      [dl_wrapper |-> FALSE,
       dl_elements |-> << [dt_elements |-> <<HeadingLong>>,
                           dd_elements |-> << <<LinkA, LinkB>> >>] >>],
      [dl_wrapper |-> TRUE,
       dl_elements |-> << [dt_elements |-> <<HeadingLong>>,
                           dd_elements |-> << <<LinkA, LinkB>> >>] >>],
      [dl_wrapper |-> TRUE,
       dl_elements |-> << [dt_elements |-> <<HeadingApril, HeadingLong>>,
                           dd_elements |-> << <<LinkRelative>> >>] >>] }

\* run has not called scrape_with_scroll to its end yet.
NoHtml == [dl_wrapper |-> FALSE, dl_elements |-> <<>>]

NoIteration == [measured |-> FALSE, previous |-> 0, stalls |-> 0, progress |-> 0,
                scroll_calls |-> 0]

SInit ==
    /\ s_pc = "launch"
    /\ s_attempt = 1
    /\ s_browser = "none"
    /\ playwright = "started"
    /\ dl_wrapper_found = FALSE
    /\ previous_height = 0
    /\ current_height = 0
    /\ failed_scroll_attempts = 0
    /\ successful_scrolls = 0
    /\ publications_found = 0
    /\ iteration = NoIteration
    /\ checkpoint_due = FALSE
    /\ checkpoints = 0
    /\ run_pc = "scrape"
    /\ html_content = NoHtml
    /\ self_publications = <<>>
    /\ final_extractions = 0

\* An exception leaves scrape_with_scroll: the `async with async_playwright()`
\* block is left, no statement of the method runs any more.
PropagateOut ==
    /\ s_pc' = "raised"
    /\ playwright' = "stopped"
    /\ s_attempt' = 1

\* launch_browser: one attempt.
LaunchBrowser ==
    /\ s_pc = "launch"
    /\ \E ok \in BOOLEAN :
          IF ok
          THEN /\ s_browser' = "open"
               /\ s_pc' = "new_page"
               /\ s_attempt' = 1
               /\ playwright' = playwright
          ELSE /\ s_browser' = s_browser
               /\ IF RetryAgain(launch_browser_policy, s_attempt, "Exception")
                  THEN /\ s_attempt' = s_attempt + 1
                       /\ UNCHANGED <<s_pc, playwright>>
                  ELSE PropagateOut
    /\ UNCHANGED <<outside_scraper, fvars>>
    /\ UNCHANGED run_locals
    /\ UNCHANGED <<dl_wrapper_found, previous_height, current_height,
                   failed_scroll_attempts, successful_scrolls, publications_found,
                   iteration, checkpoint_due, checkpoints>>

\* browser.new_page() and page.route(...): not retried.
OpenFeedPage ==
    /\ s_pc = "new_page"
    /\ \E ok \in BOOLEAN :
          IF ok
          THEN /\ s_pc' = "navigate"
               /\ UNCHANGED <<s_attempt, playwright>>
          ELSE PropagateOut
    /\ UNCHANGED <<outside_scraper, fvars>>
    /\ UNCHANGED run_locals
    /\ UNCHANGED <<s_browser, dl_wrapper_found, previous_height, current_height,
                   failed_scroll_attempts, successful_scrolls, publications_found,
                   iteration, checkpoint_due, checkpoints>>

\* navigate_to_page: one attempt.
NavigateToFeed ==
    /\ s_pc = "navigate"
    /\ \E ok \in BOOLEAN :
          IF ok
          THEN /\ s_pc' = "wait_dl"
               /\ s_attempt' = 1
               /\ playwright' = playwright
          ELSE IF RetryAgain(navigate_to_page_policy, s_attempt, "Exception")
          THEN /\ s_attempt' = s_attempt + 1
               /\ UNCHANGED <<s_pc, playwright>>
          ELSE PropagateOut
    /\ UNCHANGED <<outside_scraper, fvars>>
    /\ UNCHANGED run_locals
    /\ UNCHANGED <<s_browser, dl_wrapper_found, previous_height, current_height,
                   failed_scroll_attempts, successful_scrolls, publications_found,
                   iteration, checkpoint_due, checkpoints>>

\* wait_for_dl_wrapper without the try/except around it: the failure after
\* the retries leaves scrape_with_scroll.
WaitForDlWrapperFailureRaises ==
    /\ s_pc = "wait_dl"
    /\ \E ok \in BOOLEAN :
          IF ok
          THEN /\ dl_wrapper_found' = TRUE
               /\ s_pc' = "loop"
               /\ s_attempt' = 1
               /\ playwright' = playwright
          ELSE /\ dl_wrapper_found' = FALSE
               /\ IF RetryAgain(wait_for_dl_wrapper_policy, s_attempt, "Exception")
                  THEN /\ s_attempt' = s_attempt + 1
                       /\ s_pc' = s_pc
                       /\ playwright' = playwright
                  ELSE PropagateOut
    /\ UNCHANGED <<outside_scraper, fvars>>
    /\ UNCHANGED run_locals
    /\ UNCHANGED <<s_browser, previous_height, current_height,
                   failed_scroll_attempts, successful_scrolls, publications_found,
                   iteration, checkpoint_due, checkpoints>>

\* wait_for_dl_wrapper: one attempt; the failure after the retries is caught
\* ("Proceeding anyway...").  Then the fixed wait and the loop's locals.
WaitForDlWrapper ==
    /\ s_pc = "wait_dl"
    /\ \E ok \in BOOLEAN :
          IF ok
          THEN /\ dl_wrapper_found' = TRUE
               /\ s_pc' = "loop"
               /\ s_attempt' = 1
          ELSE /\ dl_wrapper_found' = FALSE
               /\ IF RetryAgain(wait_for_dl_wrapper_policy, s_attempt, "Exception")
                  THEN /\ s_attempt' = s_attempt + 1
                       /\ s_pc' = s_pc
                  ELSE /\ s_attempt' = 1
                       /\ s_pc' = "loop"
    /\ UNCHANGED <<outside_scraper, fvars>>
    /\ UNCHANGED run_locals
    /\ UNCHANGED <<s_browser, playwright, previous_height, current_height,
                   failed_scroll_attempts, successful_scrolls, publications_found,
                   iteration, checkpoint_due, checkpoints>>

\* The while condition.
LoopTest ==
    /\ s_pc = "loop"
    /\ s_pc' = IF /\ failed_scroll_attempts < max_failed_scrolls
                  /\ publications_found < MaxPublications
               THEN "measure"
               ELSE "final"
    /\ iteration' = NoIteration
    /\ s_attempt' = 1
    /\ UNCHANGED <<outside_scraper, fvars>>
    /\ UNCHANGED run_locals
    /\ UNCHANGED <<s_browser, playwright, dl_wrapper_found, previous_height,
                   current_height, failed_scroll_attempts, successful_scrolls,
                   publications_found, checkpoint_due, checkpoints>>

\* The loop's except clause: the error counts as a failed scroll; at the
\* ceiling the loop is left.
ScrollOperationError ==
    /\ failed_scroll_attempts' = failed_scroll_attempts + 1
    /\ s_pc' = IF failed_scroll_attempts + 1 >= max_failed_scrolls
               THEN "final"
               ELSE "loop"
    /\ s_attempt' = 1

\* get_page_height: one attempt, and on success the comparison with the
\* previous measurement.
MeasureHeight ==
    /\ s_pc = "measure"
    /\ \/ \E h \in Heights :
             /\ h # previous_height => successful_scrolls < MaxScrolls
             /\ current_height' = h
             /\ IF h = previous_height
                THEN /\ failed_scroll_attempts' = failed_scroll_attempts + 1
                     /\ successful_scrolls' = successful_scrolls
                     /\ checkpoint_due' = checkpoint_due
                ELSE /\ failed_scroll_attempts' = 0
                     /\ successful_scrolls' = successful_scrolls + 1
                     /\ checkpoint_due' =
                            (checkpoint_due \/ (successful_scrolls + 1) % 5 = 0)
             /\ iteration' = [measured |-> TRUE, previous |-> previous_height,
                              stalls |-> failed_scroll_attempts,
                              progress |-> successful_scrolls, scroll_calls |-> 0]
             /\ s_pc' = "scroll"
             /\ s_attempt' = 1
       \/ /\ UNCHANGED <<current_height, successful_scrolls, checkpoint_due,
                         iteration>>
          /\ IF RetryAgain(get_page_height_policy, s_attempt, "Exception")
             THEN /\ s_attempt' = s_attempt + 1
                  /\ UNCHANGED <<s_pc, failed_scroll_attempts>>
             ELSE ScrollOperationError
    /\ UNCHANGED <<outside_scraper, fvars>>
    /\ UNCHANGED run_locals
    /\ UNCHANGED <<s_browser, playwright, dl_wrapper_found, previous_height,
                   publications_found, checkpoints>>

\* successful_scrolls > 0 and successful_scrolls % 5 == 0
CheckpointReached == successful_scrolls > 0 /\ successful_scrolls % 5 = 0

\* scroll_to_bottom: one attempt, and on success the settle wait; then either
\* the checkpoint or the end of the iteration.
ScrollToBottom ==
    /\ s_pc = "scroll"
    /\ iteration' = [iteration EXCEPT !.scroll_calls =
                        IF s_attempt = 1 THEN @ + 1 ELSE @]
    /\ \E ok \in BOOLEAN :
          IF ok
          THEN /\ s_attempt' = 1
               /\ failed_scroll_attempts' = failed_scroll_attempts
               /\ IF CheckpointReached
                  THEN /\ s_pc' = "checkpoint"
                       /\ checkpoint_due' = FALSE
                       /\ checkpoints' = checkpoints + 1
                       /\ previous_height' = previous_height
                  ELSE /\ s_pc' = "loop"
                       /\ previous_height' = current_height
                       /\ UNCHANGED <<checkpoint_due, checkpoints>>
          ELSE /\ UNCHANGED <<checkpoint_due, checkpoints, previous_height>>
               /\ IF RetryAgain(scroll_to_bottom_policy, s_attempt, "Exception")
                  THEN /\ s_attempt' = s_attempt + 1
                       /\ UNCHANGED <<s_pc, failed_scroll_attempts>>
                  ELSE ScrollOperationError
    /\ UNCHANGED <<outside_scraper, fvars>>
    /\ UNCHANGED run_locals
    /\ UNCHANGED <<s_browser, playwright, dl_wrapper_found, current_height,
                   successful_scrolls, publications_found>>

\* The checkpoint: get_page_content (one attempt) and, with the snapshot, the
\* extraction, which returns at most max_publications records.  At the target
\* the loop is left; a failure after the retries is caught and the loop goes
\* on.
CheckpointExtraction ==
    /\ s_pc = "checkpoint"
    /\ \/ \E n \in 0..MaxPublications :
             /\ publications_found' = n
             /\ s_attempt' = 1
             /\ IF n >= MaxPublications
                THEN /\ s_pc' = "final"
                     /\ previous_height' = previous_height
                ELSE /\ s_pc' = "loop"
                     /\ previous_height' = current_height
       \/ /\ publications_found' = publications_found
          /\ IF RetryAgain(get_page_content_policy, s_attempt, "Exception")
             THEN /\ s_attempt' = s_attempt + 1
                  /\ UNCHANGED <<s_pc, previous_height>>
             ELSE /\ s_attempt' = 1
                  /\ s_pc' = "loop"
                  /\ previous_height' = current_height
    /\ UNCHANGED <<outside_scraper, fvars>>
    /\ UNCHANGED run_locals
    /\ UNCHANGED <<s_browser, playwright, dl_wrapper_found, current_height,
                   failed_scroll_attempts, successful_scrolls, iteration,
                   checkpoint_due, checkpoints>>

\* After the loop: get_page_content (one attempt), browser.close() and the
\* return of the snapshot.
FinalSnapshot ==
    /\ s_pc = "final"
    /\ \/ \E html \in FinalSnapshots :
             /\ s_browser' = "closed"
             /\ playwright' = "stopped"
             /\ s_pc' = "returned"
             /\ s_attempt' = 1
             /\ html_content' = html
             /\ run_pc' = "extract"
       \/ /\ s_browser' = s_browser
          /\ UNCHANGED <<html_content, run_pc>>
          /\ IF RetryAgain(get_page_content_policy, s_attempt, "Exception")
             THEN /\ s_attempt' = s_attempt + 1
                  /\ UNCHANGED <<s_pc, playwright>>
             ELSE PropagateOut
    /\ UNCHANGED <<outside_scraper, fvars>>
    /\ UNCHANGED <<self_publications, final_extractions>>
    /\ UNCHANGED <<dl_wrapper_found, previous_height, current_height,
                   failed_scroll_attempts, successful_scrolls, publications_found,
                   iteration, checkpoint_due, checkpoints>>

\* run keeping no more of the final extraction than the last checkpoint
\* extraction counted.
ExtractFinalCutToCheckpoint ==
    /\ run_pc = "extract"
    /\ self_publications' =
           LET found == extract_publications_from_html(html_content)
           IN  SubSeq(found, 1, Min(Len(found), publications_found))
    /\ final_extractions' = final_extractions + 1
    /\ run_pc' = "rank"
    /\ UNCHANGED <<outside_scraper, fvars>>
    /\ UNCHANGED <<s_pc, s_attempt, s_browser, playwright, dl_wrapper_found,
                   previous_height, current_height, failed_scroll_attempts,
                   successful_scrolls, publications_found, iteration,
                   checkpoint_due, checkpoints, html_content>>

\* run, after scrape_with_scroll has returned: the extraction from the
\* snapshot it returned.
ExtractFinal ==
    /\ run_pc = "extract"
    /\ self_publications' = extract_publications_from_html(html_content)
    /\ final_extractions' = final_extractions + 1
    /\ run_pc' = "rank"
    /\ UNCHANGED <<outside_scraper, fvars>>
    /\ UNCHANGED <<s_pc, s_attempt, s_browser, playwright, dl_wrapper_found,
                   previous_height, current_height, failed_scroll_attempts,
                   successful_scrolls, publications_found, iteration,
                   checkpoint_due, checkpoints, html_content>>

\* run: the duplicates are removed and the list is sorted, newest first.
RankPublications ==
    /\ run_pc = "rank"
    /\ self_publications' =
           SortNewestFirst(<<>>, RemoveDuplicates(<<>>, {}, self_publications))
    /\ run_pc' = "save"
    /\ UNCHANGED <<outside_scraper, fvars>>
    /\ UNCHANGED <<s_pc, s_attempt, s_browser, playwright, dl_wrapper_found,
                   previous_height, current_height, failed_scroll_attempts,
                   successful_scrolls, publications_found, iteration,
                   checkpoint_due, checkpoints, html_content, final_extractions>>

\* run: save_to_file, and the return of the file's path ("" when nothing
\* was written).  The retrieval phase reads the file that was written.
SaveToFile ==
    /\ run_pc = "save"
    /\ f_file' = save_to_file(f_file, self_publications)
    /\ f_pc' = IF self_publications = <<>> THEN f_pc ELSE "unread"
    /\ f_records' = f_records
    /\ run_pc' = "saved"
    /\ UNCHANGED outside_scraper
    /\ UNCHANGED <<s_pc, s_attempt, s_browser, playwright, dl_wrapper_found,
                   previous_height, current_height, failed_scroll_attempts,
                   successful_scrolls, publications_found, iteration,
                   checkpoint_due, checkpoints, html_content, self_publications,
                   final_extractions>>

\* process_publications_file: read_publications_file on the file.
ReadFile ==
    /\ f_pc = "unread"
    /\ f_records' = read_publications_file(f_file)
    /\ f_pc' = "read"
    /\ f_file' = f_file
    /\ UNCHANGED outside_file

\* run from the return of scrape_with_scroll on.
RNext ==
    \/ ExtractFinal
    \/ RankPublications
    \/ SaveToFile
    \/ ReadFile

SNext ==
    \/ LaunchBrowser
    \/ OpenFeedPage
    \/ NavigateToFeed
    \/ WaitForDlWrapper
    \/ LoopTest
    \/ MeasureHeight
    \/ ScrollToBottom
    \/ CheckpointExtraction
    \/ FinalSnapshot
    \/ ExtractFinal
    \/ RankPublications
    \/ SaveToFile

\* ------------------------------------------------------------------------
\* One call of a retry-wrapped operation
\* ------------------------------------------------------------------------

Sites ==
    {"launch_browser", "navigate_to_page", "wait_for_dl_wrapper",
     "get_page_height", "scroll_to_bottom", "get_page_content",
     "init_browser", "download_pdf_with_aiohttp", "download_pdf_with_requests",
     "navigate_and_extract_creator", "generate_pdf_from_page"}

\* The arguments of the @retry decorator of each operation.
PolicyOf(site) ==
    CASE site = "launch_browser" -> launch_browser_policy
      [] site = "navigate_to_page" -> navigate_to_page_policy
      [] site = "wait_for_dl_wrapper" -> wait_for_dl_wrapper_policy
      [] site = "get_page_height" -> get_page_height_policy
      [] site = "scroll_to_bottom" -> scroll_to_bottom_policy
      [] site = "get_page_content" -> get_page_content_policy
      [] site = "init_browser" -> init_browser_policy
      [] site = "download_pdf_with_aiohttp" -> aiohttp_policy
      [] site = "download_pdf_with_requests" -> requests_policy
      [] site = "navigate_and_extract_creator" -> navigate_policy
      [] site = "generate_pdf_from_page" -> generate_pdf_policy

\* How one invocation of an operation can end.
AttemptOutcomes ==
    {"ok", "ClientError", "ServerTimeoutError", "OSError", "ClientPayloadError",
     "NonTransportError"}

\* The caller calls the decorated operation.
RetryInit ==
    /\ t_site \in Sites
    /\ t_state = "ready"
    /\ t_in_flight = 0
    /\ t_outcomes = <<>>
    /\ t_sleeps = <<>>
    /\ t_events = 0
    /\ t_raised = ""

\* The decorator invokes the operation.
Invoke ==
    /\ t_state = "ready"
    /\ t_state' = "invoking"
    /\ t_in_flight' = t_in_flight + 1
    /\ UNCHANGED <<t_site, t_outcomes, t_sleeps, t_events, t_raised>>
    /\ UNCHANGED outside_retry

\* The invocation ends.  A result is returned; a failure the predicate
\* rejects is raised again; after the last attempt RetryError is raised;
\* otherwise the decorator goes on to before_sleep.
Complete ==
    /\ t_state = "invoking"
    /\ \E outcome \in AttemptOutcomes :
          /\ t_outcomes' = Append(t_outcomes, outcome)
          /\ IF outcome = "ok"
             THEN /\ t_state' = "returned"
                  /\ t_raised' = t_raised
             ELSE IF RetryAgain(PolicyOf(t_site), Len(t_outcomes) + 1, outcome)
             THEN /\ t_state' = "failed"
                  /\ t_raised' = t_raised
             ELSE /\ t_state' = "raised"
                  /\ t_raised' = IF IsInstance(outcome, PolicyOf(t_site).retry_on)
                                 THEN "RetryError"
                                 ELSE outcome
    /\ t_in_flight' = t_in_flight - 1
    /\ UNCHANGED <<t_site, t_sleeps, t_events>>
    /\ UNCHANGED outside_retry

\* before_sleep_log writes its line.
BeforeSleepLog ==
    /\ t_state = "failed"
    /\ t_events' = t_events + 1
    /\ t_state' = "logged"
    /\ UNCHANGED <<t_site, t_in_flight, t_outcomes, t_sleeps, t_raised>>
    /\ UNCHANGED outside_retry

\* The decorator sleeps for the time the wait gives for the attempts made.
SleepBeforeRetry ==
    /\ t_state = "logged"
    /\ t_sleeps' = Append(t_sleeps,
                          wait_exponential(PolicyOf(t_site), Len(t_outcomes)))
    /\ t_state' = "ready"
    /\ UNCHANGED <<t_site, t_in_flight, t_outcomes, t_events, t_raised>>
    /\ UNCHANGED outside_retry

TNext ==
    \/ Invoke
    \/ Complete
    \/ BeforeSleepLog
    \/ SleepBeforeRetry

\* ------------------------------------------------------------------------
\* One call of generate_metadata
\* ------------------------------------------------------------------------

\* Titles with the keywords in capitals and small letters, one with three
\* keywords, one with none and one with a keyword's letters without its space.
CategoryTitles ==
    { <<"M", "o", "n", "e", "t", "a", "r", "y", " ", "P", "o", "l",
            "i", "c", "y">>,
      <<"E", "c", "o", "n", "o", "m", "i", "c", " ", "B", "u", "l",
            "l", "e", "t", "i", "n">>,
      <<"F", "i", "n", "a", "n", "c", "i", "a", "l", " ", "S", "t",
            "a", "b", "i", "l", "i", "t", "y">>,
      <<"S", "t", "a", "t", "i", "s", "t", "i", "c", "s">>,
      <<"A", "n", "n", "u", "a", "l", " ", "r", "e", "p", "o", "r",
            "t">>,
      <<"e", "c", "o", "n", "o", "m", "i", "c", " ", "b", "u", "l",
            "l", "e", "t", "i", "n", " ", "o", "n", " ", "f", "i", "n",
            "a", "n", "c", "i", "a", "l", " ", "s", "t", "a", "b", "i",
            "l", "i", "t", "y", " ", "s", "t", "a", "t", "i", "s", "t",
            "i", "c", "s">>,
      <<"m", "o", "n", "e", "t", "a", "r", "y", "p", "o", "l", "i",
            "c", "y">> }

\* Urls of the site with one and with several of the keywords.
CategoryUrls ==
    { <<"https://www.ecb.europa.eu", "/", "m", "o", "p", "o", "/", "x">>,
      <<"https://www.ecb.europa.eu", "/", "p", "r", "e", "s", "s", "/",
            "k", "e", "y", "/", "s", "p", "1">>,
      <<"https://www.ecb.europa.eu", "/", "s", "p", "e", "e", "c", "h">>,
      <<"https://www.ecb.europa.eu", "/", "p", "r", "e", "s", "s", "/",
            "i", "n", "t", "e", "r", "v", "i", "e", "w", "/", "i">>,
      <<"https://www.ecb.europa.eu", "/", "p", "r", "e", "s", "s", "/",
            "b", "l", "o", "g", "/", "b">>,
      <<"https://www.ecb.europa.eu", "/", "s", "t", "a", "t", "s", "/",
            "s">>,
      <<"https://www.ecb.europa.eu", "/", "p", "r", "e", "s", "s", "/",
            "p", "r", "/", "p">>,
      <<"https://www.ecb.europa.eu", "/", "p", "u", "b", "/", "x", ".",
            "p", "d", "f">>,
      <<"https://www.ecb.europa.eu", "/", "M", "O", "P", "O", "/", "X">>,
      <<"https://www.ecb.europa.eu", "/", "b", "l", "o", "g", "/", "i",
            "n", "t", "e", "r", "v", "i", "e", "w", "/", "s", "p", "e",
            "e", "c", "h">> }

MetadataInit ==
    /\ m_title \in CategoryTitles
    /\ m_url \in CategoryUrls
    /\ m_category = ""

\* generate_metadata: the category of the descriptor.
GenerateMetadata ==
    /\ m_category = ""
    /\ m_category' = determine_category(m_title, m_url)
    /\ UNCHANGED <<m_title, m_url>>
    /\ UNCHANGED outside_metadata

MNext == GenerateMetadata

\* ------------------------------------------------------------------------
\* The specifications: one program runs, the other one's state stays put
\* ------------------------------------------------------------------------


\* The retrieval phase on any input list and directory; the collection phase
\* does not run.
DownloaderInit ==
    DInit /\ SInit /\ NoCallInit /\ NoMetadataInit /\ NoFileInit

SpecDownloader == DownloaderInit /\ [][DNext]_vars

\* The collection phase; the retrieval phase does not run (empty input, empty
\* directory).
ScraperInit ==
    /\ SInit
    /\ DInit /\ publications = <<>> /\ disk = {}
    /\ NoCallInit /\ NoMetadataInit /\ NoFileInit

SpecScraper == ScraperInit /\ [][SNext]_vars

\* ECBScraper.run from the return of scrape_with_scroll on, on any snapshot:
\* the state is the one of a run whose every measurement failed.
RunInit ==
    /\ DInit /\ publications = <<>> /\ disk = {}
    /\ NoCallInit /\ NoMetadataInit /\ NoFileInit
    /\ s_pc = "returned"
    /\ s_attempt = 1
    /\ s_browser = "closed"
    /\ playwright = "stopped"
    /\ dl_wrapper_found = FALSE
    /\ previous_height = 0
    /\ current_height = 0
    /\ failed_scroll_attempts = max_failed_scrolls
    /\ successful_scrolls = 0
    /\ publications_found = 0
    /\ iteration = NoIteration
    /\ checkpoint_due = FALSE
    /\ checkpoints = 0
    /\ run_pc = "extract"
    /\ html_content \in Markups
    /\ self_publications = <<>>
    /\ final_extractions = 0

SpecRun == RunInit /\ [][RNext]_vars

\* One call of a retry-wrapped operation, with every outcome of every
\* invocation.
RetryCallInit ==
    /\ DInit /\ publications = <<>> /\ disk = {}
    /\ SInit
    /\ NoMetadataInit
    /\ NoFileInit
    /\ RetryInit

SpecRetry == RetryCallInit /\ [][TNext]_vars

\* One call of generate_metadata on any title and url.
MetadataCallInit ==
    /\ DInit /\ publications = <<>> /\ disk = {}
    /\ SInit
    /\ NoCallInit
    /\ NoFileInit
    /\ MetadataInit

SpecMetadata == MetadataCallInit /\ [][MNext]_vars

\* The lines of the model's publications files: a date, a title and a url;
\* a date and a title; a date alone; four fields; an empty line; three fields
\* between blanks; a line that ends with the separator; the fields separated
\* by "|" without the blanks.
FileLines ==
    { Date1 \o FieldSeparator \o <<"T">> \o FieldSeparator \o <<"https://example.org/p">>,
      Date1 \o FieldSeparator \o <<"T">>,
      Date1,
      Date1 \o FieldSeparator \o <<"T">> \o FieldSeparator \o <<"https://example.org/p">>
            \o FieldSeparator \o <<"x">>,
      <<>>,
      <<" ", "\t">> \o Date1 \o FieldSeparator \o <<"T">> \o FieldSeparator
            \o <<"https://example.org/p", " ", "\r">>,
      Date1 \o FieldSeparator \o <<"T">> \o FieldSeparator,
      Date1 \o <<"|", "T", "|", "https://example.org/p">> }

\* The files of up to MaxRecords lines, and the file that is not there.
Files ==
    {NoFile} \cup
    {[exists |-> TRUE, text |-> JoinLines(lines)] :
        lines \in UNION {[1..n -> FileLines] : n \in 0..MaxRecords}}

FileInit ==
    /\ f_file \in Files
    /\ f_pc = "unread"
    /\ f_records = <<>>

\* One call of read_publications_file on any file.
ReadFileInit ==
    /\ DInit /\ publications = <<>> /\ disk = {}
    /\ SInit
    /\ NoCallInit
    /\ NoMetadataInit
    /\ FileInit

FNext == ReadFile

SpecReadFile == ReadFileInit /\ [][FNext]_vars

\* ------------------------------------------------------------------------
\* The collection phase on a feed that never stops loading new content
\* ------------------------------------------------------------------------

\* successful_scrolls has no bound in the code, which reads it in two tests
\* only: successful_scrolls > 0 and successful_scrolls % 5 == 0.  Counting
\* 10 as 5 keeps both tests and lets the counter run for ever in a finite
\* state space.
FoldScrolls(n) == IF n >= 10 THEN n - 5 ELSE n

\* MeasureHeight with no bound on the steps that load new content.
MeasureHeightUnbounded ==
    /\ s_pc = "measure"
    /\ \/ \E h \in Heights :
             /\ current_height' = h
             /\ IF h = previous_height
                THEN /\ failed_scroll_attempts' = failed_scroll_attempts + 1
                     /\ successful_scrolls' = successful_scrolls
                     /\ checkpoint_due' = checkpoint_due
                ELSE /\ failed_scroll_attempts' = 0
                     /\ successful_scrolls' = FoldScrolls(successful_scrolls + 1)
                     /\ checkpoint_due' =
                            (checkpoint_due \/ (successful_scrolls + 1) % 5 = 0)
             /\ iteration' = [measured |-> TRUE, previous |-> previous_height,
                              stalls |-> failed_scroll_attempts,
                              progress |-> successful_scrolls, scroll_calls |-> 0]
             /\ s_pc' = "scroll"
             /\ s_attempt' = 1
       \/ /\ UNCHANGED <<current_height, successful_scrolls, checkpoint_due,
                         iteration>>
          /\ IF RetryAgain(get_page_height_policy, s_attempt, "Exception")
             THEN /\ s_attempt' = s_attempt + 1
                  /\ UNCHANGED <<s_pc, failed_scroll_attempts>>
             ELSE ScrollOperationError
    /\ UNCHANGED <<outside_scraper, fvars>>
    /\ UNCHANGED run_locals
    /\ UNCHANGED <<s_browser, playwright, dl_wrapper_found, previous_height,
                   publications_found, checkpoints>>

\* ScrollToBottom; the history of checkpoints counts up to MaxScrolls.
ScrollToBottomUnbounded ==
    /\ s_pc = "scroll"
    /\ iteration' = [iteration EXCEPT !.scroll_calls =
                        IF s_attempt = 1 THEN @ + 1 ELSE @]
    /\ \E ok \in BOOLEAN :
          IF ok
          THEN /\ s_attempt' = 1
               /\ failed_scroll_attempts' = failed_scroll_attempts
               /\ IF CheckpointReached
                  THEN /\ s_pc' = "checkpoint"
                       /\ checkpoint_due' = FALSE
                       /\ checkpoints' = IF checkpoints < MaxScrolls THEN checkpoints + 1
                                       ELSE checkpoints
                       /\ previous_height' = previous_height
                  ELSE /\ s_pc' = "loop"
                       /\ previous_height' = current_height
                       /\ UNCHANGED <<checkpoint_due, checkpoints>>
          ELSE /\ UNCHANGED <<checkpoint_due, checkpoints, previous_height>>
               /\ IF RetryAgain(scroll_to_bottom_policy, s_attempt, "Exception")
                  THEN /\ s_attempt' = s_attempt + 1
                       /\ UNCHANGED <<s_pc, failed_scroll_attempts>>
                  ELSE ScrollOperationError
    /\ UNCHANGED <<outside_scraper, fvars>>
    /\ UNCHANGED run_locals
    /\ UNCHANGED <<s_browser, playwright, dl_wrapper_found, current_height,
                   successful_scrolls, publications_found>>

\* The steps of scrape_with_scroll.
ScrapeNextUnbounded ==
    \/ LaunchBrowser
    \/ OpenFeedPage
    \/ NavigateToFeed
    \/ WaitForDlWrapper
    \/ LoopTest
    \/ MeasureHeightUnbounded
    \/ ScrollToBottomUnbounded
    \/ CheckpointExtraction
    \/ FinalSnapshot

\* The process takes its next step whenever it has one: every await of
\* scrape_with_scroll returns or raises.
SpecScraperLive ==
    ScraperInit /\ [][ScrapeNextUnbounded]_vars /\ WF_vars(ScrapeNextUnbounded)

\* ------------------------------------------------------------------------
\* Properties of the collection phase
\* ------------------------------------------------------------------------

\* C7: when scrape_with_scroll has returned or raised, the browser it
\* launched has been closed.
C7_BrowserClosedOnEveryExit ==
    (s_pc \in {"returned", "raised"} /\ s_browser # "none") => s_browser = "closed"

\* C8: failed_scroll_attempts never exceeds the ceiling of 10, and no
\* measurement (no further iteration) starts once it has reached 10 or once a
\* checkpoint extraction has returned max_publications records.
C8_StallCeiling ==
    /\ failed_scroll_attempts <= 10
    /\ s_pc = "measure" =>
          /\ failed_scroll_attempts < 10
          /\ publications_found < MaxPublications

\* C9: in an iteration whose measurement succeeded, right after the
\* comparison the counters are as the branch taken says (equal: one more
\* stall, progress unchanged; different: stalls 0, one more progress), and
\* when the loop comes back to its test the load-more action was called
\* exactly once and previous_height is the measurement of the iteration.
C9_IterationBookkeeping ==
    /\ (s_pc = "scroll" /\ s_attempt = 1) =>
          IF current_height = iteration.previous
          THEN /\ failed_scroll_attempts = iteration.stalls + 1
               /\ successful_scrolls = iteration.progress
          ELSE /\ failed_scroll_attempts = 0
               /\ successful_scrolls = iteration.progress + 1
    /\ (s_pc = "loop" /\ iteration.measured) =>
          /\ iteration.scroll_calls = 1
          /\ previous_height = current_height

\* C10: no measurement starts while a checkpoint is due, that is after
\* successful_scrolls came to a multiple of 5 and before a checkpoint
\* extraction was started.
C10_CheckpointBeforeNextMeasurement ==
    s_pc = "measure" => ~checkpoint_due

\* ------------------------------------------------------------------------
\* Properties of ECBScraper.run
\* ------------------------------------------------------------------------

\* The list run holds once the duplicates are removed and the list is sorted.
Ranked(pubs) == SortNewestFirst(<<>>, RemoveDuplicates(<<>>, {}, pubs))

\* C11: however the loop ended, one extraction and no more is made after
\* it, from the snapshot read after the loop, and what is deduplicated and
\* ranked is the result of that extraction, whatever the checkpoint
\* extractions counted.
C11_OneFinalExtractionIsRanked ==
    /\ final_extractions <= 1
    /\ final_extractions = 1 => s_pc = "returned"
    /\ run_pc = "scrape" => final_extractions = 0 /\ self_publications = <<>>
    /\ run_pc = "rank" =>
          /\ final_extractions = 1
          /\ self_publications = extract_publications_from_html(html_content)
    /\ run_pc = "save" =>
          /\ final_extractions = 1
          /\ self_publications =
                 Ranked(extract_publications_from_html(html_content))

\* The loop ended at the stall ceiling after a checkpoint extraction whose
\* count differs from what the final snapshot yields, and run has ranked.
C11_Witness ==
    /\ run_pc = "save"
    /\ failed_scroll_attempts >= max_failed_scrolls
    /\ checkpoints >= 1
    /\ publications_found # Len(extract_publications_from_html(html_content))
    /\ self_publications # <<>>

\* C12: once entered, the pagination loop is left, whatever the feed does,
\* and it is left with the target count reached or with the stall count at
\* the ceiling.
C12_LoopTerminates ==
    /\ (s_pc = "loop") ~> (s_pc = "final")
    /\ [](s_pc = "final" =>
             \/ publications_found >= MaxPublications
             \/ failed_scroll_attempts >= max_failed_scrolls)

\* C13: the list run has deduplicated and sorted has pairwise distinct urls,
\* dates that do not increase along the list, and at most max_publications
\* elements.
C13_RankedDistinctSortedCapped ==
    run_pc = "save" =>
        /\ Len(self_publications) <= MaxPublications
        /\ \A i, j \in 1..Len(self_publications) :
              i < j =>
                 /\ self_publications[i].url # self_publications[j].url
                 /\ ~StrLess(self_publications[i].date,
                             self_publications[j].date)

\* The extraction met the limit, held one url twice, and the ranking put a
\* later record first.
C13_Witness ==
    /\ run_pc = "save"
    /\ LET found == extract_publications_from_html(html_content)
       IN  /\ Len(found) = MaxPublications
           /\ Len(self_publications) < Len(found)
           /\ \E i \in 1..Len(self_publications) :
                 self_publications[i] # found[i]

\* A url with a scheme and an authority.
IsAbsoluteUrl(url) ==
    \E scheme \in {"https:", "http:"} : StartsWith(url, <<scheme, "/", "/">>)

\* C14: every record the extraction emits has an absolute url, whatever the
\* form of the link's target.
C14_EveryUrlAbsolute ==
    run_pc \in {"rank", "save"} =>
        \A i \in 1..Len(self_publications) :
            IsAbsoluteUrl(self_publications[i].url)

\* The records of pubs that are the first with their url, in the order of
\* pubs.
RECURSIVE FirstOccurrences(_, _)
FirstOccurrences(pubs, i) ==
    IF i > Len(pubs) THEN <<>>
    ELSE (IF \E j \in 1..(i - 1) : pubs[j].url = pubs[i].url
          THEN <<>>
          ELSE <<pubs[i]>>) \o FirstOccurrences(pubs, i + 1)

PositionIn(pubs, pub) == CHOOSE k \in 1..Len(pubs) : pubs[k] = pub

\* ranked is a stable sort of pubs by date, newest first: the same records,
\* no date before a later one, and records of one date in the order of pubs.
IsStableSortNewestFirst(ranked, pubs) ==
    /\ Len(ranked) = Len(pubs)
    /\ {ranked[i] : i \in 1..Len(ranked)} = {pubs[i] : i \in 1..Len(pubs)}
    /\ \A i, j \in 1..Len(ranked) :
          i < j =>
             /\ ~StrLess(ranked[i].date, ranked[j].date)
             /\ ranked[i].date = ranked[j].date =>
                   PositionIn(pubs, ranked[i]) < PositionIn(pubs, ranked[j])

\* C15: the ranked list is what keeping the first record of each url, in
\* the order of extraction, and then sorting stably by date, newest first,
\* gives.
C15_FirstOccurrenceThenStableSort ==
    run_pc = "save" =>
        IsStableSortNewestFirst(
            self_publications,
            FirstOccurrences(extract_publications_from_html(html_content), 1))

\* The extraction gave the urls a, b, a, c in this order, the records of a
\* and b have one date, and the ranked list holds a, b and c once each with
\* a before b.
C15_Witness ==
    /\ run_pc = "save"
    /\ LET found == extract_publications_from_html(html_content)
       IN  /\ Len(found) = 4
           /\ found[1].url = found[3].url
           /\ found[1].url # found[2].url
           /\ found[4].url \notin {found[1].url, found[2].url}
           /\ found[1].date = found[2].date
           /\ self_publications = <<found[1], found[2], found[4]>>

\* The links of a snapshot that yield a record, in document order, each with
\* the text of its heading: the links of the i-th dd of a dl stand under
\* its i-th dt.
IsCandidate(date_text, link) ==
    /\ ~link.accordion
    /\ link.text # <<>>
    /\ link.href # <<>>
    /\ parse_date(date_text) # NoDate

RECURSIVE CandidatesOfLinks(_, _)
CandidatesOfLinks(date_text, links) ==
    IF links = <<>> THEN <<>>
    ELSE (IF IsCandidate(date_text, Head(links))
          THEN <<[date_text |-> date_text, link |-> Head(links)]>>
          ELSE <<>>) \o CandidatesOfLinks(date_text, Tail(links))

RECURSIVE CandidatesOfDl(_, _)
CandidatesOfDl(dl, i) ==
    IF i > Len(dl.dt_elements) \/ i > Len(dl.dd_elements) THEN <<>>
    ELSE CandidatesOfLinks(dl.dt_elements[i], dl.dd_elements[i])
            \o CandidatesOfDl(dl, i + 1)

RECURSIVE CandidatesOfDls(_)
CandidatesOfDls(dl_elements) ==
    IF dl_elements = <<>> THEN <<>>
    ELSE CandidatesOfDl(Head(dl_elements), 1)
            \o CandidatesOfDls(Tail(dl_elements))

Candidates(html) ==
    IF html.dl_wrapper THEN CandidatesOfDls(html.dl_elements) ELSE <<>>

\* C16: the extraction never returns more than max_publications records;
\* from a snapshot with more candidate links it returns max_publications
\* records, and its k-th record is the record of the k-th candidate.
C16_FirstCandidatesUpToLimit ==
    run_pc = "rank" =>
        LET candidates == Candidates(html_content)
        IN  /\ Len(self_publications) <= MaxPublications
            /\ Len(candidates) > MaxPublications =>
                  Len(self_publications) = MaxPublications
            /\ Len(self_publications) <= Len(candidates)
            /\ \A k \in 1..Len(self_publications) :
                  /\ self_publications[k].original_date_text =
                         candidates[k].date_text
                  /\ self_publications[k].title =
                         ReplacePipes(candidates[k].link.text)
                  /\ self_publications[k].url \in
                         {candidates[k].link.href,
                          Origin \o candidates[k].link.href}

\* A snapshot with more candidates than the limit, in more than one dl, has
\* been extracted.
C16_Witness ==
    /\ run_pc = "rank"
    /\ Len(Candidates(html_content)) > MaxPublications
    /\ Len(html_content.dl_elements) > 1
    /\ Len(self_publications) = MaxPublications

\* ------------------------------------------------------------------------
\* Properties of the retry-wrapped operations
\* ------------------------------------------------------------------------

\* maxAttempts of the operation called: 2 for the fallback transport, 3
\* everywhere else.
MaxAttemptsOfSite == IF t_site = "download_pdf_with_requests" THEN 2 ELSE 3

\* The failures the operation's predicate accepts: the transport errors for
\* the primary transport, every failure elsewhere.
AcceptedAtSite(failure) ==
    t_site = "download_pdf_with_aiohttp" =>
        failure \in {"ClientError", "ServerTimeoutError", "OSError",
                     "ClientPayloadError"}

\* C17: one call invokes the operation at most maxAttempts times and one
\* invocation at a time; every invocation but the last ended in a failure
\* the predicate accepts, so none follows a success or a rejected failure;
\* and when the last invocation failed at the last attempt or with a
\* rejected failure, the call has raised.
C17_BoundedSequentialRetries ==
    LET n == Len(t_outcomes)
    IN  /\ n + t_in_flight <= MaxAttemptsOfSite
        /\ t_in_flight <= 1
        /\ \A k \in 1..n :
              (k < n \/ t_in_flight = 1 \/ t_state \in {"failed", "logged", "ready"})
                 => t_outcomes[k] # "ok" /\ AcceptedAtSite(t_outcomes[k])
        /\ (n > 0 /\ t_outcomes[n] = "ok") => t_state = "returned"
        /\ (n > 0 /\ t_outcomes[n] # "ok"
              /\ (n = MaxAttemptsOfSite \/ ~AcceptedAtSite(t_outcomes[n])))
              => t_state = "raised" /\ t_raised \in {t_outcomes[n], "RetryError"}
        /\ t_state = "raised" =>
              /\ n > 0 /\ t_outcomes[n] # "ok"
              /\ n = MaxAttemptsOfSite \/ ~AcceptedAtSite(t_outcomes[n])

\* The primary transport failed three times with transport errors and the
\* call raised.
C17_Witness ==
    /\ t_site = "download_pdf_with_aiohttp"
    /\ Len(t_outcomes) = 3
    /\ t_state = "raised"
    /\ t_raised = "RetryError"

\* (minDelay, maxDelay, multiplier) of the operation called.
DelaysOfSite ==
    CASE t_site \in {"get_page_height", "scroll_to_bottom"} ->
            [min |-> 1, max |-> 5, multiplier |-> 1]
      [] t_site \in {"get_page_content", "download_pdf_with_aiohttp"} ->
            [min |-> 2, max |-> 8, multiplier |-> 1]
      [] t_site = "download_pdf_with_requests" ->
            [min |-> 2, max |-> 6, multiplier |-> 1]
      [] OTHER -> [min |-> 2, max |-> 10, multiplier |-> 1]

\* One before_sleep_log event before each sleep: as many events as sleeps,
\* and one more while the sleep it announces has not begun.
OneEventBeforeEachSleep ==
    t_events = Len(t_sleeps) + (IF t_state = "logged" THEN 1 ELSE 0)

\* C18: the delay slept before the k-th retry is
\* min(maxDelay, minDelay * multiplier^(k-1)), and one diagnostic event
\* precedes each sleep.
C18_DelayIsMinTimesPowerOfMultiplier ==
    /\ \A k \in 1..Len(t_sleeps) :
          t_sleeps[k] = Min(DelaysOfSite.max,
                            DelaysOfSite.min * Pow(DelaysOfSite.multiplier, k - 1))
    /\ OneEventBeforeEachSleep

\* C18, amended: the delay slept before the k-th retry is
\* multiplier * 2^(k-1) kept between minDelay and maxDelay, and one
\* diagnostic event precedes each sleep.
C18_DelayDoublesWithinBounds ==
    /\ \A k \in 1..Len(t_sleeps) :
          t_sleeps[k] = Max(DelaysOfSite.min,
                            Min(DelaysOfSite.max,
                                DelaysOfSite.multiplier * Pow(2, k - 1)))
    /\ OneEventBeforeEachSleep

\* The extent measurement failed twice and slept 1 and then 2 seconds.
C18_Witness ==
    /\ t_site = "get_page_height"
    /\ t_sleeps = <<1, 2>>
    /\ t_events = 2

\* ------------------------------------------------------------------------
\* Properties of the category
\* ------------------------------------------------------------------------

\* The rules in their order: the keywords looked for in the title, those
\* looked for in the url, and the category.
CategoryRules ==
    << [in_title |-> {monetary_policy}, in_url |-> {mopo_path},
        category |-> "Monetary policy statement"],
       [in_title |-> {economic_bulletin}, in_url |-> {},
        category |-> "Economic Bulletin"],
       [in_title |-> {financial_stability}, in_url |-> {},
        category |-> "Financial Stability Review"],
       [in_title |-> {}, in_url |-> {speech, key}, category |-> "Speech"],
       [in_title |-> {}, in_url |-> {interview}, category |-> "Interview"],
       [in_title |-> {}, in_url |-> {blog}, category |-> "Blog"],
       [in_title |-> {statistics}, in_url |-> {stats_path},
        category |-> "Statistical release"],
       [in_title |-> {}, in_url |-> {press, pr_path},
        category |-> "Press release"] >>

\* keyword occurs in s, capitals and small letters taken as equal.
OccursIgnoringCase(s, keyword) ==
    \E i \in 1..Len(s) :
        /\ i + Len(keyword) - 1 <= Len(s)
        /\ \A j \in 1..Len(keyword) :
              LowerSym(s[i + j - 1]) = LowerSym(keyword[j])

RuleMatches(rule, title, url) ==
    \/ \E keyword \in rule.in_title : OccursIgnoringCase(title, keyword)
    \/ \E keyword \in rule.in_url : OccursIgnoringCase(url, keyword)

FirstMatchingCategory(title, url) ==
    LET matching == {i \in 1..Len(CategoryRules) :
                        RuleMatches(CategoryRules[i], title, url)}
    IN  IF matching = {} THEN "Report"
        ELSE CategoryRules[CHOOSE i \in matching :
                              \A j \in matching : i <= j].category

\* C19: the category is the one of the first rule, in the fixed order, that
\* matches the title or the url without regard to case, and Report when no
\* rule matches; a url with /mopo/ gives Monetary policy statement whatever
\* the title.
C19_FirstMatchingRuleWins ==
    m_category # "" =>
        /\ m_category = FirstMatchingCategory(m_title, m_url)
        /\ OccursIgnoringCase(m_url, mopo_path) =>
              m_category = "Monetary policy statement"

\* A url with both "key" and "press", under a title with no keyword, has
\* been classified as a speech.
C19_Witness ==
    /\ m_category = "Speech"
    /\ Contains(m_url, press)
    /\ Contains(m_url, key)
    /\ FirstMatchingCategory(m_title, <<>>) = "Report"

\* ------------------------------------------------------------------------
\* Properties of the collision resolution
\* ------------------------------------------------------------------------

\* <date>_<title>_At{n}.<ext>, the title being the sanitized title without
\* an _AtN it ends with.
NumberedName(pub, extension, n) ==
    pub.date \o <<"_">> \o StripAtSuffix(sanitize_filename(pub.title))
        \o <<"_", "A", "t">> \o ToDigits(n) \o <<".">> \o extension

\* <baseName>.<ext> when no such file is in d, else the numbered name with
\* the smallest n >= 1 that names no file of d.
FirstFreeName(d, pub, extension) ==
    LET base_name == pub.date \o <<"_">> \o sanitize_filename(pub.title)
                         \o <<".">> \o extension
        free == {n \in 1..(Cardinality(d) + 1) :
                    ~FileExists(d, NumberedName(pub, extension, n))}
    IN  IF ~FileExists(d, base_name) THEN base_name
        ELSE NumberedName(pub, extension,
                          CHOOSE n \in free : \A m \in free : n <= m)

\* process_publication has resolved the names of the record and has not
\* gone further: the directory is the one the resolver looked at.
JustResolved ==
    /\ d_pc \in {"primary", "new_page"}
    /\ attempt = 1
    /\ primary_log = <<>>

\* C20: the resolver returns <baseName>.<ext> when no such file exists and
\* else <date>_<title>_At{n}.<ext> with the smallest n >= 1 that names no
\* existing file.
C20_SmallestFreeCounter ==
    JustResolved =>
        /\ pdf_filename = FirstFreeName(disk, publications[idx], PdfExt)
        /\ json_filename = FirstFreeName(disk, publications[idx], JsonExt)

\* With 2024-01-01_T.pdf and 2024-01-01_T_At1.pdf in the directory, the
\* record of title T has been given 2024-01-01_T_At2.pdf.
C20_Witness ==
    /\ JustResolved
    /\ publications[idx].title = <<"T">>
    /\ FileExists(disk, Date1 \o <<"_", "T", ".">> \o PdfExt)
    /\ FileExists(disk, Date1 \o <<"_", "T", "_", "A", "t", "1", ".">> \o PdfExt)
    /\ pdf_filename = Date1 \o <<"_", "T", "_", "A", "t", "2", ".">> \o PdfExt


\* ------------------------------------------------------------------------
\* Properties of the publications file
\* ------------------------------------------------------------------------

\* The fields of a line: the line without the whitespace around it, cut at
\* every ' | '.
FieldsOf(line) == Split(StripWhitespace(line), FieldSeparator, -1)

\* One record for each line of exactly three fields, in the order of the
\* lines.
RECURSIVE RecordsOfThreeFieldLines(_)
RecordsOfThreeFieldLines(lines) ==
    IF lines = <<>> THEN <<>>
    ELSE LET fields == FieldsOf(Head(lines))
         IN  (IF Len(fields) = 3
              THEN << [date |-> fields[1], title |-> fields[2], url |-> fields[3]] >>
              ELSE <<>>)
                 \o RecordsOfThreeFieldLines(Tail(lines))

\* C21: read_publications_file yields a record for a line if and only if
\* the line consists of exactly three fields separated by ' | '; a line of
\* fewer or of more fields yields no record.
C21_RecordIffExactlyThreeFields ==
    (f_pc = "read" /\ f_file.exists) =>
        f_records = RecordsOfThreeFieldLines(Split(f_file.text, <<"\n">>, -1))

\* The (date, title, url) triples of a list of publications.
TriplesOf(pubs) ==
    [i \in 1..Len(pubs) |-> [date |-> pubs[i].date, title |-> pubs[i].title,
                             url |-> pubs[i].url]]

\* C27: read_publications_file applied to the file save_to_file wrote
\* returns the (date, title, url) triples of the ranked list, in the same
\* order and with the same length.
C27_RoundTrip ==
    (run_pc = "saved" /\ f_pc = "read") => f_records = TriplesOf(self_publications)


\* ------------------------------------------------------------------------
\* Further properties of the retrieval phase
\* ------------------------------------------------------------------------

\* C22: as long as the browser has not been established no record is handed
\* to process_publication and no step changes the downloads directory;
\* init_browser is tried at most 3 times; and a run that finishes with the
\* session set up and no browser finishes by raising.
C22_NoBrowserNoRecord ==
    /\ [](browser = "none" => processed = <<>>)
    /\ [](d_pc = "init_browser" => attempt <= init_browser_policy.attempts)
    /\ []((d_pc = "finished" /\ session # "none" /\ browser = "none") => raising)
    /\ [][browser' = "none" => disk' = disk]_vars

\* run has finished by raising, without a browser, on a list of records and
\* a directory that holds files.
C22_Witness ==
    /\ d_pc = "finished"
    /\ raising
    /\ session = "closed"
    /\ browser = "none"
    /\ publications # <<>>
    /\ disk # {}
    /\ processed = <<>>

\* A step of the loop body of process_publications_file before the delay.
RecordUnderWay ==
    d_pc \in {"process", "primary", "fallback", "new_page", "navigate", "render",
              "metadata", "count"}

\* C25: from an empty downloads directory, between two records every file
\* of the directory has a partner of the same base name and the other
\* extension; and a retrieval that failed left no file under the resolved
\* artifact name.
C25_DocumentsAndSidecarsPaired ==
    (\A f \in disk : f.owner # 0) =>
        /\ ~RecordUnderWay =>
              \A f \in disk :
                  \E g \in disk : g.name # f.name /\ StemOf(g.name) = StemOf(f.name)
        /\ (RecordHandled /\ ~success) => ~FileExists(disk, pdf_filename)

\* C26: between two records, and when the batch has ended, no page that
\* html_to_pdf opened is still open.
C26_NoPageOpenBetweenRecords ==
    d_pc \in {"count", "sleep", "process", "close", "finished"} => open_pages = 0

\* C28: the loop body is entered only from the read of the file and from
\* the delay; idx moves by one, and only there; the steps of a record are
\* left only for the delay, whether the record succeeded, failed or raised;
\* and at the delay the record has been counted.
C28_OneRecordAtATime ==
    /\ [](d_pc = "sleep" => successful + failed = idx)
    /\ [](RecordUnderWay => successful + failed = idx - 1)
    /\ [][(d_pc' = "process" /\ d_pc # "process") => d_pc \in {"read", "sleep"}]_vars
    /\ [][idx' # idx => (idx' = idx + 1 /\ d_pc \in {"read", "sleep"})]_vars
    /\ [][(RecordUnderWay /\ ~RecordUnderWay') => d_pc' = "sleep"]_vars

\* The second record is about to be retrieved after the sidecar write of
\* the first one raised and the delay was applied.
C28_Witness ==
    /\ d_pc = "process"
    /\ idx = 2
    /\ failed = 1
    /\ processed = <<1>>
    /\ \E f \in disk : f.owner = 1 /\ EndsWith(f.name, JsonExt) /\ f.state = "partial"

\* ------------------------------------------------------------------------
\* Further properties of the collection phase
\* ------------------------------------------------------------------------

\* C23: wait_for_dl_wrapper is left for the loop, never by an exception that
\* leaves scrape_with_scroll; and the extraction from a snapshot without
\* div.dl-wrapper gives the empty list.
C23_MissingContainerIsNotFatal ==
    /\ []((run_pc = "rank" /\ ~html_content.dl_wrapper) => self_publications = <<>>)
    /\ [][(s_pc = "wait_dl" /\ s_pc' # "wait_dl") =>
              (s_pc' = "loop" /\ playwright' = "started")]_vars

\* The container never appeared, the loop ran, and the final extraction was
\* made on a snapshot that has links and no container.
C23_Witness ==
    /\ ~dl_wrapper_found
    /\ successful_scrolls > 0
    /\ s_pc = "returned"
    /\ run_pc = "rank"
    /\ final_extractions = 1
    /\ ~html_content.dl_wrapper
    /\ html_content.dl_elements # <<>>
    /\ self_publications = <<>>

\* C24: a checkpoint extraction starts only in an iteration whose
\* measurement raised successful_scrolls to a multiple of 5, and the number
\* of checkpoint extractions never exceeds successful_scrolls divided by 5.
C24_CheckpointOnlyOnFifthIncrement ==
    /\ s_pc = "checkpoint" =>
          /\ iteration.measured
          /\ successful_scrolls = iteration.progress + 1
          /\ successful_scrolls % 5 = 0
    /\ checkpoints * 5 <= successful_scrolls
====
